---------------------------- MODULE Spec2Model ----------------------------
(***************************************************************************)
(* A model of the slack_bot package of TribalKnowledge: the LLM provider   *)
(* with fallback (llm_provider.py), the query cache (cache_store.py), the  *)
(* thread context store (thread_context.py), the agentic loop              *)
(* (message_handler.py) and the event dispatcher (app.py).                 *)
(*                                                                         *)
(* Several specifications share the module:                                *)
(*   SpecLLM    one call of LLMProvider.call_with_fallback                 *)
(*   SpecCache  sequences of QueryCacheStore operations                    *)
(*   SpecShort  find_match and save on questions shorter than 15           *)
(*              characters                                                 *)
(*   Spec       background tasks of app._process_and_respond running       *)
(*              process_message against the stores                         *)
(*   SpecWindow ThreadContext.get_messages_for_llm on growing histories    *)
(*   SpecMCP    one MCPClient: initialize, call_tool, close                *)
(*   SpecDispatch  the event handlers of app.py, the tasks they start and  *)
(*              the except branch of a task                                *)
(*   SpecArguments  one message whose tool calls carry argument texts of   *)
(*              every JSON kind                                            *)
(*   SpecLifecycle  startup, the cleanup tasks, shutdown and the tasks in  *)
(*              flight                                                     *)
(*   SpecThreadMention  a mention posted in a thread, delivered as two     *)
(*              events                                                     *)
(***************************************************************************)
EXTENDS Integers, Sequences, FiniteSets, TLC

VARIABLES
    \* ---- LLMProvider.call_with_fallback (llm_provider.py) ----
    config,        \* LLMConfig: primary_available, fallback_enabled, fallback_available
    max_retries,   \* the max_retries argument of the call
    lpc,           \* position of the call: "start", "primary", "sleep", "fallback", "returned", "raised"
    attempt,       \* loop variable of `for attempt in range(1, max_retries + 1)`
    last_error,    \* last_error local
    trace,         \* the back-end calls and sleeps made so far, in order
    outcome,       \* what the call returned or raised
    \* ---- QueryCacheStore (cache_store.py) ----
    cache,         \* the rows of table query_cache
    next_rowid,    \* the next value of the AUTOINCREMENT id
    cache_enabled, \* QueryCacheStore._enabled
    now,           \* datetime.utcnow(), in the time unit of the model
    fm,            \* the latest find_match call: its position, its question, the row
                   \* it read and, once it returned, what it returned
    \* ---- app.py, message_handler.py, thread_context.py, mcp_client.py ----
    tasks,         \* the background tasks of _process_and_respond, in creation order
    thread_contexts,      \* the rows of table thread_contexts, by thread_key
    message_question_map, \* app.message_question_map
    cache_auto_save,      \* CACHE_AUTO_SAVE
    env,           \* what the environment may still do: tasks it may start, LLM
                   \* responses with tool calls, unusual responses and failures
    slack,         \* the workspace as the handlers leave it: the reactions the
                   \* bot added and the messages it posted besides placeholders,
                   \* and the events of a user message still to be delivered
    \* ---- ThreadContext.get_messages_for_llm on its own (thread_context.py) ----
    history,       \* a ThreadContext being extended, and the tool calls of its
                   \* last assistant message that have no result yet
    llm_messages,  \* what the latest get_messages_for_llm call returned, and its
                   \* max_messages
    \* ---- MCPClient on its own (mcp_client.py) ----
    mcp,           \* one MCPClient: _sessions, _tools, the requests it has posted
                   \* and what its latest call_tool returned
    \* ---- startup, shutdown and the cleanup tasks (app.py) ----
    lifecycle      \* how far main() has come, and the two cleanup tasks

llmVars == <<config, max_retries, lpc, attempt, last_error, trace, outcome>>

cacheVars == <<cache, next_rowid, cache_enabled, now, fm>>

\* what an action of one component leaves alone
appVars == <<tasks, thread_contexts, message_question_map, cache_auto_save, env, slack>>

winVars == <<history, llm_messages>>

mcpVars == <<mcp>>

lifeVars == <<lifecycle>>

nonLLMVars == <<cacheVars, appVars, winVars, mcpVars, lifeVars>>

nonCacheVars == <<llmVars, appVars, winVars, mcpVars, lifeVars>>

nonWinVars == <<llmVars, cacheVars, appVars, mcpVars, lifeVars>>

nonMCPVars == <<llmVars, cacheVars, appVars, winVars, lifeVars>>

vars == <<config, max_retries, lpc, attempt, last_error, trace, outcome,
          cache, next_rowid, cache_enabled, now, fm,
          tasks, thread_contexts, message_question_map, cache_auto_save, env,
          history, llm_messages, mcp, slack, lifecycle>>

(***************************************************************************)
(* Bounds of the model.                                                    *)
(***************************************************************************)
\* largest max_retries argument explored (the default is DEFAULT_MAX_RETRIES)
MaxRetries == 6

\* llm_provider.py:195, the default of the max_retries parameter
DEFAULT_MAX_RETRIES == 2

\* the clock is advanced MaxTime times at most, each time by one TTL
MaxTime == 2

\* rows inserted into query_cache in one behaviour (ids 1..MaxInserts)
MaxInserts == 2

\* cache hits recorded on one row before the model stops looking it up
MaxHits == 2

\* background tasks started in one behaviour
MaxTasks == 2

\* LLM responses with tool calls in a behaviour with a single task: enough for
\* the task to reach MAX_ITERATIONS
MaxToolTurns == 10

\* LLM responses with tool calls in a behaviour with several tasks
MaxOverlapTurns == 2

\* unusual responses and failures of the environment in one behaviour
MaxUnusual == 1

\* messages of a history handed to get_messages_for_llm
MaxHistory == 7

\* max_messages handed to get_messages_for_llm
MaxWindow == 4

\* tool calls in one assistant message of a history
MaxCallsPerTurn == 2

\* times the model lets a day pass while tasks run
MaxTicks == 1

\* SpecDispatch: tool-calling responses, tasks that raise, and thread messages
\* and ignored reactions of a behaviour
MaxDispatchTurns == 1

\* tool-calling turns of the task whose tool calls carry odd arguments
MaxArgumentTurns == 2

\* LLM responses with arguments that are JSON but no object
MaxNonObject == 1

\* runs of each cleanup task
MaxCleanupRuns == 2

\* tool-calling turns of the tasks of a mention posted in a thread
MaxThreadTurns == 1

\* tool-calling turns of the tasks that run while the application shuts down
MaxShutdownTurns == 1

MaxFaults == 1

MaxEvents == 1

\* LLM responses with tool calls in a behaviour in which days pass
MaxTickTurns == 1

\* DEFAULT_CONTEXT_TTL_SECONDS (24 hours)
DEFAULT_CONTEXT_TTL_SECONDS == 24 * 60 * 60

\* interval_seconds of run_cleanup_task
CLEANUP_INTERVAL_SECONDS == 3600

\* CACHE_TTL_SECONDS (an environment setting, default 7 days)
CACHE_TTL_SECONDS == 86400 * 7

\* CACHE_FUZZY_THRESHOLD (an environment setting, default "0.99"), in hundredths
CACHE_FUZZY_THRESHOLD == 99

\* LIMIT 100 of the fuzzy scan
FUZZY_SCAN_LIMIT == 100

\* `if len(q1) < 15 or len(q2) < 15` of fuzzy_match_score
SHORT_QUESTION_LEN == 15

(***************************************************************************)
(* Errors a back-end call can raise.  An exception is described by what    *)
(* the classifiers read: the status_code attribute, the status attribute   *)
(* (NoAttr when the exception has no such attribute) and the indicator     *)
(* substrings found in str(error).lower().                                 *)
(***************************************************************************)
NoAttr == -1

credit_indicators == {"402", "credits", "insufficient", "can only afford", "quota exceeded"}

retryable_patterns == {"timeout", "rate limit", "429", "503", "504", "connection", "network"}

Errors ==
    { [name |-> "payment_required", status_code |-> 402,    status |-> NoAttr, text |-> {"402"}],
      [name |-> "status_attr_402",  status_code |-> NoAttr, status |-> 402,    text |-> {}],
      [name |-> "credits_text",     status_code |-> NoAttr, status |-> NoAttr, text |-> {"credits"}],
      [name |-> "quota_on_503",     status_code |-> 503,    status |-> NoAttr, text |-> {"503", "quota exceeded"}],
      [name |-> "rate_limited",     status_code |-> 429,    status |-> NoAttr, text |-> {"429", "rate limit"}],
      [name |-> "server_error",     status_code |-> 500,    status |-> NoAttr, text |-> {}],
      [name |-> "timeout",          status_code |-> NoAttr, status |-> NoAttr, text |-> {"timeout"}],
      [name |-> "bad_request",      status_code |-> 400,    status |-> NoAttr, text |-> {}],
      [name |-> "unauthorized",     status_code |-> 401,    status |-> NoAttr, text |-> {}] }

\* last_error = None, and the "error" of a call that succeeded
NoError == [name |-> "none", status_code |-> NoAttr, status |-> NoAttr, text |-> {}]

\* hasattr(error, 'status_code') and error.status_code == 402, the same for
\* error.status, or a credit indicator in str(error).lower()
is_credits_error(error) ==
    \/ error.status_code # NoAttr /\ error.status_code = 402
    \/ error.status # NoAttr /\ error.status = 402
    \/ error.text \cap credit_indicators # {}

\* status_code 429 or 5xx, or a retryable pattern in str(error).lower()
is_retryable_error(error) ==
    \/ /\ error.status_code # NoAttr
       /\ \/ error.status_code = 429
          \/ 500 <= error.status_code /\ error.status_code < 600
    \/ error.text \cap retryable_patterns # {}

Min(a, b) == IF a <= b THEN a ELSE b

\* the backoff without its 10 s cap
BackoffDelayUncapped(a) == 2 ^ (a - 1)

\* delay = min(1.0 * (2 ** (attempt - 1)), 10.0)
BackoffDelay(a) == Min(1 * (2 ^ (a - 1)), 10)

(***************************************************************************)
(* Events of the trace.                                                    *)
(***************************************************************************)
PrimaryEvent(a, e) == [op |-> "primary",  attempt |-> a, delay |-> 0, error |-> e]
SleepEvent(a, d)   == [op |-> "sleep",    attempt |-> a, delay |-> d, error |-> NoError]
FallbackEvent(e)   == [op |-> "fallback", attempt |-> 0, delay |-> 0, error |-> e]

Returned(fb)   == [kind |-> "returned", used_fallback |-> fb,
                   actual_model |-> IF fb THEN "fallback_model" ELSE "primary_model",
                   error |-> NoError, primary |-> NoError, fallback |-> NoError]
\* `raise last_error`
RaisedLast(e)  == [kind |-> "raised_last_error", used_fallback |-> FALSE, actual_model |-> "",
                   error |-> e, primary |-> NoError, fallback |-> NoError]
\* RuntimeError("No LLM provider available (check API keys)")
RaisedNoProvider == [kind |-> "raised_no_provider", used_fallback |-> FALSE, actual_model |-> "",
                     error |-> NoError, primary |-> NoError, fallback |-> NoError]
\* the combined error without the primary cause
RaisedBothFallbackOnly(p, f) ==
    [kind |-> "raised_both", used_fallback |-> FALSE, actual_model |-> "",
     error |-> NoError, primary |-> NoError, fallback |-> f]

\* RuntimeError("Both primary (...) and fallback (...) failed. Primary error: ... Fallback error: ...")
RaisedBoth(p, f) == [kind |-> "raised_both", used_fallback |-> FALSE, actual_model |-> "",
                     error |-> NoError, primary |-> p, fallback |-> f]
Pending == [kind |-> "pending", used_fallback |-> FALSE, actual_model |-> "",
            error |-> NoError, primary |-> NoError, fallback |-> NoError]

\* the fallback guard without the LLM_FALLBACK_ENABLED switch
FallbackAllowedIgnoringSwitch == config.fallback_available

\* `if self.config.fallback_enabled and self.config.fallback_available`
FallbackAllowed == config.fallback_enabled /\ config.fallback_available

\* the code after the primary loop when the fallback is not tried, swallowing last_error
NoFallbackOutcomeSwallow(e) == RaisedNoProvider

\* `if last_error: raise last_error` / `raise RuntimeError("No LLM provider available ...")`
NoFallbackOutcome(e) == IF e # NoError THEN RaisedLast(e) ELSE RaisedNoProvider

\* Leaving the primary part (loop ended, break, or primary not configured):
\* either the fallback is tried next or the call raises.
LeavePrimary(e) ==
    IF FallbackAllowed
    THEN /\ lpc' = "fallback"
         /\ outcome' = outcome
    ELSE /\ lpc' = "raised"
         /\ outcome' = NoFallbackOutcome(e)

\* the except-branch without the credits check (a credits error that also looks
\* retryable is retried)
AfterFailureNoCreditsCheck(a, e) ==
    IF ~is_retryable_error(e) THEN "break"
    ELSE IF a < max_retries THEN "sleep"
    ELSE "continue"

\* the except-branch sleeping after the last attempt too
AfterFailureSleepsAlways(a, e) ==
    IF is_credits_error(e) THEN "break"
    ELSE IF ~is_retryable_error(e) THEN "break"
    ELSE "sleep"

\* the except-branch giving up on the primary after any error
AfterFailureBreaksAlways(a, e) == "break"

\* The except-branch of a primary attempt: "break" leaves the loop, "sleep"
\* awaits the backoff, "continue" ends the loop body without sleeping.
AfterFailure(a, e) ==
    IF is_credits_error(e) THEN "break"
    ELSE IF ~is_retryable_error(e) THEN "break"
    ELSE IF a < max_retries THEN "sleep"
    ELSE "continue"

\* a loop that runs one round too many
LoopContinuesOneMore(a) == a < max_retries + 1

\* `for attempt in range(1, max_retries + 1)`: after round a there is a round a + 1
LoopContinues(a) == a < max_retries

(***************************************************************************)
(* call_with_fallback, one action per await point.                         *)
(***************************************************************************)
LLMInit ==
    /\ config \in [primary_available : BOOLEAN, fallback_enabled : BOOLEAN,
                   fallback_available : BOOLEAN]
    /\ max_retries \in 1..MaxRetries
    /\ lpc = "start"
    /\ attempt = 0
    /\ last_error = NoError
    /\ trace = <<>>
    /\ outcome = Pending

\* the provider is not being called
LLMIdle ==
    /\ config = [primary_available |-> TRUE, fallback_enabled |-> TRUE,
                 fallback_available |-> TRUE]
    /\ max_retries = DEFAULT_MAX_RETRIES
    /\ lpc = "idle"
    /\ attempt = 0
    /\ last_error = NoError
    /\ trace = <<>>
    /\ outcome = Pending

\* entry: `if self.config.primary_available:` ... `else:` logger.warning
Enter ==
    /\ lpc = "start"
    /\ IF config.primary_available
       THEN /\ lpc' = "primary"
            /\ attempt' = 1
            /\ outcome' = outcome
       ELSE /\ LeavePrimary(last_error)
            /\ attempt' = attempt
    /\ UNCHANGED <<config, max_retries, last_error, trace>>
    /\ UNCHANGED nonLLMVars

\* `response = await self._call_openrouter(...)` succeeded
PrimarySucceeds ==
    /\ lpc = "primary"
    /\ trace' = Append(trace, PrimaryEvent(attempt, NoError))
    /\ lpc' = "returned"
    /\ outcome' = Returned(FALSE)
    /\ UNCHANGED <<config, max_retries, attempt, last_error>>
    /\ UNCHANGED nonLLMVars

\* `except Exception as e:` of a primary attempt
PrimaryFails ==
    /\ lpc = "primary"
    /\ \E e \in Errors :
          /\ trace' = Append(trace, PrimaryEvent(attempt, e))
          /\ last_error' = e
          /\ LET next == AfterFailure(attempt, e) IN
             IF next = "break"
             THEN LeavePrimary(e) /\ attempt' = attempt
             ELSE IF next = "sleep"
             THEN lpc' = "sleep" /\ outcome' = outcome /\ attempt' = attempt
             ELSE IF LoopContinues(attempt)
             THEN lpc' = "primary" /\ outcome' = outcome /\ attempt' = attempt + 1
             ELSE LeavePrimary(e) /\ attempt' = attempt
    /\ UNCHANGED <<config, max_retries>>
    /\ UNCHANGED nonLLMVars

\* `await asyncio.sleep(delay)` returns; the loop body ends
Sleep ==
    /\ lpc = "sleep"
    /\ trace' = Append(trace, SleepEvent(attempt, BackoffDelay(attempt)))
    /\ IF LoopContinues(attempt)
       THEN lpc' = "primary" /\ outcome' = outcome /\ attempt' = attempt + 1
       ELSE LeavePrimary(last_error) /\ attempt' = attempt
    /\ UNCHANGED <<config, max_retries, last_error>>
    /\ UNCHANGED nonLLMVars

\* `response = await self._call_openai(...)` succeeded
FallbackSucceeds ==
    /\ lpc = "fallback"
    /\ trace' = Append(trace, FallbackEvent(NoError))
    /\ lpc' = "returned"
    /\ outcome' = Returned(TRUE)
    /\ UNCHANGED <<config, max_retries, attempt, last_error>>
    /\ UNCHANGED nonLLMVars

\* `except Exception as e:` of the fallback call: raise the combined RuntimeError
FallbackFails ==
    /\ lpc = "fallback"
    /\ \E e \in Errors :
          /\ trace' = Append(trace, FallbackEvent(e))
          /\ outcome' = RaisedBoth(last_error, e)
    /\ lpc' = "raised"
    /\ UNCHANGED <<config, max_retries, attempt, last_error>>
    /\ UNCHANGED nonLLMVars

LLMNext ==
    \/ Enter
    \/ PrimarySucceeds
    \/ PrimaryFails
    \/ Sleep
    \/ FallbackSucceeds
    \/ FallbackFails

(***************************************************************************)
(* cache_store.py: strings.  A question is a TLA+ string; characters are   *)
(* read with SubSeq.                                                       *)
(***************************************************************************)
UpperCase == "ABCDEFGHIJKLMNOPQRSTUVWXYZ"
LowerCase == "abcdefghijklmnopqrstuvwxyz"

CharAt(s, i) == SubSeq(s, i, i)

\* str.lower() of one character
LowerChar(c) ==
    IF \E i \in 1..Len(UpperCase) : CharAt(UpperCase, i) = c
    THEN CharAt(LowerCase, CHOOSE i \in 1..Len(UpperCase) : CharAt(UpperCase, i) = c)
    ELSE c

RECURSIVE Lower(_)
\* str.lower()
Lower(s) == IF s = "" THEN "" ELSE LowerChar(CharAt(s, 1)) \o Lower(Tail(s))

\* str.isspace() of one character
IsSpace(c) == c \in {" ", "\t", "\n"}

RECURSIVE LStrip(_)
LStrip(s) == IF s # "" /\ IsSpace(CharAt(s, 1)) THEN LStrip(Tail(s)) ELSE s

RECURSIVE RStrip(_)
RStrip(s) ==
    IF s # "" /\ IsSpace(CharAt(s, Len(s))) THEN RStrip(SubSeq(s, 1, Len(s) - 1)) ELSE s

\* str.strip()
Strip(s) == LStrip(RStrip(s))

RECURSIVE SplitFrom(_, _, _)
\* str.split() continued: `word` is the word being read, `words` those already read
SplitFrom(s, word, words) ==
    IF s = ""
    THEN IF word = "" THEN words ELSE Append(words, word)
    ELSE IF IsSpace(CharAt(s, 1))
         THEN SplitFrom(Tail(s), "", IF word = "" THEN words ELSE Append(words, word))
         ELSE SplitFrom(Tail(s), word \o CharAt(s, 1), words)

\* str.split(): the words between runs of whitespace
Split(s) == SplitFrom(s, "", <<>>)

RECURSIVE Join(_, _)
\* sep.join(words)
Join(sep, words) ==
    IF words = <<>> THEN ""
    ELSE IF Len(words) = 1 THEN words[1]
    ELSE words[1] \o sep \o Join(sep, Tail(words))

\* normalize_question that forgets to lowercase
normalize_question_keeps_case(question) == Join(" ", Split(Strip(question)))

\* " ".join(question.lower().strip().split())
normalize_question(question) == Join(" ", Split(Strip(Lower(question))))

\* hashlib.md5(normalized.encode()).hexdigest(): the digest is kept symbolic, so
\* two digests are equal exactly when the digested strings are (MD5 collisions
\* are not modelled)
hash_question(normalized) == "md5(" \o normalized \o ")"

\* questions asked in the model
Questions ==
    { "Count merchants now",       \* 19 characters
      "count  merchants now ",     \* the same question after normalization
      "now count merchants",       \* the same words in another order
      "list tables" }              \* shorter than 15 characters

\* questions of two words, asked where find_match is checked on short
\* questions: the same words in another order, with a word repeated (16
\* characters), and in another spelling of the same normalized text
ShortQuestions ==
    { "list tables", "tables list", "list list tables", "List  tables " }

\* normalize_question on the questions of the model, computed once
Normalized == [q \in Questions \cup ShortQuestions |-> normalize_question(q)]

\* hash_question of the normalized questions of the model, computed once
HashOf == [q \in Questions \cup ShortQuestions |-> hash_question(Normalized[q])]

Range(f) == {f[i] : i \in DOMAIN f}

Max(a, b) == IF a >= b THEN a ELSE b

\* A score is a fraction <<numerator, denominator>>; 1.0 is <<1, 1>>, 0.0 is <<0, 1>>.
ScoreGreater(a, b) == a[1] * b[2] > b[1] * a[2]

\* fuzzy_match_score without the rule for short questions
fuzzy_match_score_by_words(q1, q2) ==
    IF q1 = "" \/ q2 = "" THEN <<0, 1>>
    ELSE LET words1 == Range(Split(q1))
             words2 == Range(Split(q2))
         IN  IF words1 = {} \/ words2 = {} THEN <<0, 1>>
             ELSE LET overlap == Cardinality(words1 \cap words2)
                      max_len == Max(Cardinality(words1), Cardinality(words2))
                  IN  IF max_len > 0 THEN <<overlap, max_len>> ELSE <<0, 1>>

\* fuzzy_match_score(q1, q2)
fuzzy_match_score(q1, q2) ==
    IF q1 = "" \/ q2 = "" THEN <<0, 1>>
    ELSE IF Len(q1) < SHORT_QUESTION_LEN \/ Len(q2) < SHORT_QUESTION_LEN
         THEN IF q1 = q2 THEN <<1, 1>> ELSE <<0, 1>>
    ELSE LET words1 == Range(Split(q1))
             words2 == Range(Split(q2))
         IN  IF words1 = {} \/ words2 = {} THEN <<0, 1>>
             ELSE LET overlap == Cardinality(words1 \cap words2)
                      max_len == Max(Cardinality(words1), Cardinality(words2))
                  IN  IF max_len > 0 THEN <<overlap, max_len>> ELSE <<0, 1>>

\* fuzzy_match_score on the normalized questions of the model, computed once
Score == [q1 \in Range(Normalized), q2 \in Range(Normalized) |-> fuzzy_match_score(q1, q2)]

(***************************************************************************)
(* cache_store.py: the table and its rows.                                 *)
(***************************************************************************)
\* SQL NULL in column last_hit_at
NULL == -1

\* json.dumps / json.loads of a column value
JsonDumps(v) == <<"json", v>>
JsonLoads(j) == j[2]

\* a row of query_cache
Row(id, q, payload, t) ==
    [id |-> id,
     question_hash |-> HashOf[q],
     question_text |-> q,
     question_normalized |-> Normalized[q],
     response_text |-> payload.response_text,
     tools_used |-> JsonDumps(payload.tools_used),
     sql_queries |-> JsonDumps(payload.sql_queries),
     progress_events |-> JsonDumps(payload.progress_events),
     hit_count |-> 0,
     created_at |-> t,
     last_hit_at |-> NULL]

\* "no row" / None
NoRow == [id |-> 0]

\* _row_to_cached: the CachedResponse read from a row
row_to_cached(row) ==
    [id |-> row.id,
     question_hash |-> row.question_hash,
     question_text |-> row.question_text,
     question_normalized |-> row.question_normalized,
     response_text |-> row.response_text,
     tools_used |-> JsonLoads(row.tools_used),
     sql_queries |-> JsonLoads(row.sql_queries),
     progress_events |-> JsonLoads(row.progress_events),
     hit_count |-> row.hit_count,
     created_at |-> row.created_at,
     last_hit_at |-> row.last_hit_at]

\* CachedResponse.is_expired, read at time `now`
is_expired(cached) == now - cached.created_at > CACHE_TTL_SECONDS

\* the UPDATE of _record_hit that forgets last_hit_at
RecordHitRowCountOnly(row) == [row EXCEPT !.hit_count = @ + 1]

\* SET hit_count = hit_count + 1, last_hit_at = ? on one row
RecordHitRow(row) == [row EXCEPT !.hit_count = @ + 1, !.last_hit_at = now]

\* _record_hit: UPDATE query_cache ... WHERE id = ?
record_hit(cache_id) ==
    {IF row.id = cache_id THEN RecordHitRow(row) ELSE row : row \in cache}

\* the upsert UPDATE of save that keeps the old hit bookkeeping
UpsertRowKeepsHits(row, q, payload) ==
    [row EXCEPT !.question_text = q,
                !.response_text = payload.response_text,
                !.tools_used = JsonDumps(payload.tools_used),
                !.sql_queries = JsonDumps(payload.sql_queries),
                !.progress_events = JsonDumps(payload.progress_events),
                !.created_at = now]

\* the upsert UPDATE of save that resets the count but keeps last_hit_at
UpsertRowKeepsLastHit(row, q, payload) ==
    [row EXCEPT !.question_text = q,
                !.response_text = payload.response_text,
                !.tools_used = JsonDumps(payload.tools_used),
                !.sql_queries = JsonDumps(payload.sql_queries),
                !.progress_events = JsonDumps(payload.progress_events),
                !.created_at = now,
                !.hit_count = 0]

\* the UPDATE of save's IntegrityError branch, on the row with the same hash
UpsertRow(row, q, payload) ==
    [row EXCEPT !.question_text = q,
                !.response_text = payload.response_text,
                !.tools_used = JsonDumps(payload.tools_used),
                !.sql_queries = JsonDumps(payload.sql_queries),
                !.progress_events = JsonDumps(payload.progress_events),
                !.created_at = now,
                !.hit_count = 0,
                !.last_hit_at = NULL]

\* the table after save(question, payload): INSERT, or on a taken hash UPDATE
SavedCache(q, payload) ==
    LET h == HashOf[q] IN
    IF \E row \in cache : row.question_hash = h
    THEN {IF row.question_hash = h THEN UpsertRow(row, q, payload) ELSE row : row \in cache}
    ELSE cache \cup {Row(next_rowid, q, payload, now)}

\* what save returns: the new id, or -1 (disabled, or an existing row updated)
SaveReturns(q) ==
    IF ~cache_enabled THEN -1
    ELSE IF \E row \in cache : row.question_hash = HashOf[q]
         THEN -1
         ELSE next_rowid

\* _find_by_hash
find_by_hash(question_hash) ==
    IF \E row \in cache : row.question_hash = question_hash
    THEN row_to_cached(CHOOSE row \in cache : row.question_hash = question_hash)
    ELSE NoRow

\* _find_by_normalized: fetchone() of the rows with this normalized text
find_by_normalized(normalized) ==
    IF \E row \in cache : row.question_normalized = normalized
    THEN {row_to_cached(row) : row \in {r \in cache : r.question_normalized = normalized}}
    ELSE {NoRow}

\* ORDER BY last_hit_at DESC NULLS LAST, created_at DESC: r1 comes before r2
ScanBefore(r1, r2) ==
    \/ r1.last_hit_at # NULL /\ r2.last_hit_at = NULL
    \/ r1.last_hit_at # NULL /\ r2.last_hit_at # NULL /\ r1.last_hit_at > r2.last_hit_at
    \/ r1.last_hit_at = r2.last_hit_at /\ r1.created_at > r2.created_at

\* the rows the fuzzy scan may read: fewer than LIMIT rows come before them
ScannedRows ==
    {r \in cache : Cardinality({r2 \in cache : ScanBefore(r2, r)}) < FUZZY_SCAN_LIMIT}

FuzzyThreshold == <<CACHE_FUZZY_THRESHOLD, 100>>

\* _find_fuzzy: the rows the loop can end with as best_match (rows that tie in
\* the ORDER BY come in either order), or NoRow
find_fuzzy(normalized) ==
    LET above == {r \in ScannedRows :
                     ScoreGreater(Score[normalized, r.question_normalized],
                                  FuzzyThreshold)}
        best  == {r \in above :
                     \A r2 \in above :
                        LET s  == Score[normalized, r.question_normalized]
                            s2 == Score[normalized, r2.question_normalized]
                        IN  /\ ~ScoreGreater(s2, s)
                            /\ (s2[1] * s[2] = s[1] * s2[2]) => ~ScanBefore(r2, r)}
    IN  IF best = {} THEN {NoRow} ELSE {row_to_cached(r) : r \in best}

(***************************************************************************)
(* cache_store.py: the operations of QueryCacheStore, one action per       *)
(* statement awaited (find_match awaits up to three SELECTs and the        *)
(* UPDATE of _record_hit; the other operations are one statement under the *)
(* store lock).                                                            *)
(***************************************************************************)
\* progress_events = None
None == <<"__None__">>

\* `progress_events or []`
OrEmpty(v) == IF v = None \/ v = <<>> THEN <<>> ELSE v

\* payloads saved in the model: what a ProcessingResult carries into save
Payloads ==
    { [response_text |-> "There are 250 merchants.",
       tools_used |-> << [server |-> "postgres-mcp", tool |-> "execute_query"] >>,
       sql_queries |-> << "SELECT COUNT(*) FROM synthetic.merchants" >>,
       progress_events |-> << "Working on it" >>],
      [response_text |-> "merchants, orders",
       tools_used |-> << [server |-> "synth-mcp", tool |-> "list_tables"] >>,
       sql_queries |-> <<>>,
       progress_events |-> None] }

\* the payload as save stores it
StoredPayload(payload) == [payload EXCEPT !.progress_events = OrEmpty(@)]

\* no find_match call yet
FmIdle == [pc |-> "idle", question |-> "", tier |-> 0, cached |-> NoRow]

\* find_match(q) returned `cached` (NoRow for None), found by tier `tier`
FmReturned(q, tier, cached) ==
    [pc |-> "returned", question |-> q, tier |-> tier, cached |-> cached]

CacheInit ==
    /\ cache = {}
    /\ next_rowid = 1
    /\ cache_enabled \in BOOLEAN
    /\ now = 0
    /\ fm = FmIdle

\* the cache is not used
CacheIdle ==
    /\ cache = {}
    /\ next_rowid = 1
    /\ cache_enabled = TRUE
    /\ now = 0
    /\ fm = FmIdle

\* find_match(question) up to its first await: `if not self._enabled: return None`
FindStart(q) ==
    /\ fm.pc \in {"idle", "returned"}
    /\ \A row \in cache : row.hit_count < MaxHits
    /\ IF ~cache_enabled
       THEN fm' = FmReturned(q, 0, NoRow)
       ELSE fm' = [FmIdle EXCEPT !.pc = "tier1", !.question = q]
    /\ UNCHANGED <<cache, next_rowid, cache_enabled, now>>
    /\ UNCHANGED nonCacheVars

\* a tier that does not look at the expiry
UsableIgnoringExpiry(cached) == cached # NoRow

\* the row a tier found is taken when it exists and is not expired
Usable(cached) == cached # NoRow /\ ~is_expired(cached)

\* Tier 1: `cached = await self._find_by_hash(question_hash)`
FindTier1 ==
    /\ fm.pc = "tier1"
    /\ LET cached == find_by_hash(HashOf[fm.question]) IN
       IF Usable(cached)
       THEN fm' = [fm EXCEPT !.pc = "hit", !.tier = 1, !.cached = cached]
       ELSE fm' = [fm EXCEPT !.pc = "tier2"]
    /\ UNCHANGED <<cache, next_rowid, cache_enabled, now>>
    /\ UNCHANGED nonCacheVars

\* Tier 2: `cached = await self._find_by_normalized(normalized)`
FindTier2 ==
    /\ fm.pc = "tier2"
    /\ \E cached \in find_by_normalized(Normalized[fm.question]) :
          IF Usable(cached)
          THEN fm' = [fm EXCEPT !.pc = "hit", !.tier = 2, !.cached = cached]
          ELSE fm' = [fm EXCEPT !.pc = "tier3"]
    /\ UNCHANGED <<cache, next_rowid, cache_enabled, now>>
    /\ UNCHANGED nonCacheVars

\* Tier 3: `cached = await self._find_fuzzy(normalized)`; a miss returns None
FindTier3 ==
    /\ fm.pc = "tier3"
    /\ \E cached \in find_fuzzy(Normalized[fm.question]) :
          IF Usable(cached)
          THEN fm' = [fm EXCEPT !.pc = "hit", !.tier = 3, !.cached = cached]
          ELSE fm' = FmReturned(fm.question, 0, NoRow)
    /\ UNCHANGED <<cache, next_rowid, cache_enabled, now>>
    /\ UNCHANGED nonCacheVars

\* `await self._record_hit(cached.id)` and `return cached`: the object returned
\* is the one read before the UPDATE
FindRecordHit ==
    /\ fm.pc = "hit"
    /\ cache' = record_hit(fm.cached.id)
    /\ fm' = FmReturned(fm.question, fm.tier, fm.cached)
    /\ UNCHANGED <<next_rowid, cache_enabled, now>>
    /\ UNCHANGED nonCacheVars

\* save(question, response_text, tools_used, sql_queries, progress_events)
Save(q, payload) ==
    /\ IF ~cache_enabled
       THEN UNCHANGED <<cache, next_rowid>>
       ELSE /\ SaveReturns(q) # -1 => next_rowid <= MaxInserts
            /\ cache' = SavedCache(q, StoredPayload(payload))
            /\ next_rowid' = IF SaveReturns(q) # -1 THEN next_rowid + 1 ELSE next_rowid
    /\ UNCHANGED <<cache_enabled, now, fm>>
    /\ UNCHANGED nonCacheVars

\* delete(cache_id)
Delete(cache_id) ==
    /\ cache' = {row \in cache : row.id # cache_id}
    /\ UNCHANGED <<next_rowid, cache_enabled, now, fm>>
    /\ UNCHANGED nonCacheVars

\* delete_by_question(question)
DeleteByQuestion(q) ==
    /\ cache' = {row \in cache : row.question_hash # HashOf[q]}
    /\ UNCHANGED <<next_rowid, cache_enabled, now, fm>>
    /\ UNCHANGED nonCacheVars

\* clear()
Clear ==
    /\ cache' = {}
    /\ UNCHANGED <<next_rowid, cache_enabled, now, fm>>
    /\ UNCHANGED nonCacheVars

\* cleanup_expired(): DELETE ... WHERE created_at < cutoff
CleanupExpired ==
    /\ cache' = {row \in cache : ~(row.created_at < now - CACHE_TTL_SECONDS)}
    /\ UNCHANGED <<next_rowid, cache_enabled, now, fm>>
    /\ UNCHANGED nonCacheVars

\* time passes: one TTL
Tick ==
    /\ now < MaxTime * CACHE_TTL_SECONDS
    /\ now' = now + CACHE_TTL_SECONDS
    /\ UNCHANGED <<cache, next_rowid, cache_enabled, fm>>
    /\ UNCHANGED nonCacheVars

\* find_match and save on the short questions, while time passes
ShortNext ==
    \/ \E q \in ShortQuestions : FindStart(q)
    \/ FindTier1
    \/ FindTier2
    \/ FindTier3
    \/ FindRecordHit
    \/ \E q \in ShortQuestions, payload \in Payloads : Save(q, payload)
    \/ Tick

CacheNext ==
    \/ \E q \in Questions : FindStart(q)
    \/ FindTier1
    \/ FindTier2
    \/ FindTier3
    \/ FindRecordHit
    \/ \E q \in Questions, payload \in Payloads : Save(q, payload)
    \/ \E id \in 1..MaxInserts : Delete(id)
    \/ \E q \in Questions : DeleteByQuestion(q)
    \/ Clear
    \/ CleanupExpired
    \/ Tick

(***************************************************************************)
(* thread_context.py: messages, contexts and the thread store.             *)
(*                                                                         *)
(* An Optional value is a sequence of length at most one: None is <<>>,    *)
(* a value v is <<v>>.  A dict key that is absent reads as None with       *)
(* d.get, so an absent key is <<>> as well.                                *)
(***************************************************************************)
Nothing == <<>>

Some(v) == <<v>>

\* truthiness of an Optional[str]: None and "" are falsy
TruthyStr(o) == o # Nothing /\ o[1] # ""

\* truthiness of an Optional[list]: None and [] are falsy
TruthyList(o) == o # Nothing /\ o[1] # <<>>

\* `o or default` for an Optional[str]
StrOr(o, default) == IF TruthyStr(o) THEN o[1] ELSE default

\* the dataclass Message
Message(role, content, user_id, tool_calls, tool_call_id) ==
    [role |-> role,
     content |-> content,
     timestamp |-> now,
     user_id |-> user_id,
     tool_calls |-> tool_calls,
     tool_call_id |-> tool_call_id]

\* Message.to_dict: user_id, tool_calls and tool_call_id are written when truthy
to_dict(msg) ==
    [role |-> msg.role,
     content |-> msg.content,
     timestamp |-> msg.timestamp,
     user_id |-> IF TruthyStr(msg.user_id) THEN msg.user_id ELSE Nothing,
     tool_calls |-> IF TruthyList(msg.tool_calls) THEN msg.tool_calls ELSE Nothing,
     tool_call_id |-> IF TruthyStr(msg.tool_call_id) THEN msg.tool_call_id ELSE Nothing]

\* Message.from_dict: d.get(key) for the optional keys
from_dict(d) ==
    [role |-> d.role,
     content |-> d.content,
     timestamp |-> d.timestamp,
     user_id |-> d.user_id,
     tool_calls |-> d.tool_calls,
     tool_call_id |-> d.tool_call_id]

\* a ThreadContext in memory
ThreadContext(thread_key, user_id, messages) ==
    [thread_key |-> thread_key, user_id |-> user_id, messages |-> messages]

\* ThreadContext.add_user_message(content): user_id defaults to the context's
add_user_message(context, content) ==
    [context EXCEPT !.messages =
        Append(@, Message("user", content, Some(context.user_id), Nothing, Nothing))]

\* ThreadContext.add_assistant_message(content, tool_calls)
add_assistant_message(context, content, tool_calls) ==
    [context EXCEPT !.messages =
        Append(@, Message("assistant", StrOr(content, ""), Nothing, tool_calls, Nothing))]

\* add_tool_result that loses the id of the call
add_tool_result_without_id(context, tool_call_id, content) ==
    [context EXCEPT !.messages =
        Append(@, Message("tool", content, Nothing, Nothing, Nothing))]

\* ThreadContext.add_tool_result(tool_call_id, content)
add_tool_result(context, tool_call_id, content) ==
    [context EXCEPT !.messages =
        Append(@, Message("tool", content, Nothing, Nothing, Some(tool_call_id)))]

\* one message as get_messages_for_llm hands it to the LLM
LLMMessage(msg) ==
    [role |-> msg.role,
     content |-> msg.content,
     tool_calls |-> IF TruthyList(msg.tool_calls) THEN msg.tool_calls ELSE Nothing,
     tool_call_id |-> IF TruthyStr(msg.tool_call_id) THEN msg.tool_call_id ELSE Nothing]

\* self.messages[-max_messages:] if len(self.messages) > max_messages else self.messages
Recent(messages, max_messages) ==
    IF Len(messages) > max_messages
    THEN SubSeq(messages, Len(messages) - max_messages + 1, Len(messages))
    ELSE messages

\* ThreadContext.get_messages_for_llm(max_messages)
get_messages_for_llm(context, max_messages) ==
    LET recent == Recent(context.messages, max_messages)
    IN  [i \in 1..Len(recent) |-> LLMMessage(recent[i])]

\* thread keys "{channel_id}:{thread_ts}" of the model
ThreadKeys == {"C01:1700000001.000100", "C01:1700000002.000200"}

\* the user of the model
USER == "U01"

\* no row under a thread key
NoThread == [thread_key |-> ""]

\* the row read back: ThreadContext(..., messages=[Message.from_dict(m) ...])
RowToContext(row) ==
    ThreadContext(row.thread_key, row.user_id,
                  [i \in 1..Len(JsonLoads(row.messages)) |->
                      from_dict(JsonLoads(row.messages)[i])])

\* the row get_or_create inserts for a new thread
NewThreadRow(thread_key, user_id) ==
    [thread_key |-> thread_key,
     user_id |-> user_id,
     messages |-> JsonDumps(<<>>),
     metadata |-> JsonDumps(<<>>),
     created_at |-> now,
     updated_at |-> now]

\* ThreadContextStore.get_or_create: the context returned
get_or_create(thread_key, user_id) ==
    IF thread_contexts[thread_key] # NoThread
    THEN RowToContext(thread_contexts[thread_key])
    ELSE ThreadContext(thread_key, user_id, <<>>)

\* ThreadContextStore.get_or_create: the table afterwards
AfterGetOrCreate(thread_key, user_id) ==
    IF thread_contexts[thread_key] # NoThread
    THEN thread_contexts
    ELSE [thread_contexts EXCEPT ![thread_key] = NewThreadRow(thread_key, user_id)]

\* ThreadContextStore.save: UPDATE ... WHERE thread_key = ? (no row, no change)
AfterSave(context) ==
    IF thread_contexts[context.thread_key] = NoThread
    THEN thread_contexts
    ELSE [thread_contexts EXCEPT ![context.thread_key] =
            [@ EXCEPT !.messages =
                        JsonDumps([i \in 1..Len(context.messages) |->
                                      to_dict(context.messages[i])]),
                      !.updated_at = now]]

\* ThreadContextStore.get: the context of the row, or None
get(thread_key) ==
    IF thread_contexts[thread_key] = NoThread
    THEN Nothing
    ELSE Some(RowToContext(thread_contexts[thread_key]))

\* ThreadContextStore.cleanup_old_contexts: DELETE ... WHERE updated_at < cutoff
cleanup_old_contexts(max_age_seconds) ==
    [thread_key \in ThreadKeys |->
        IF /\ thread_contexts[thread_key] # NoThread
           /\ thread_contexts[thread_key].updated_at < now - max_age_seconds
        THEN NoThread
        ELSE thread_contexts[thread_key]]

(***************************************************************************)
(* mcp_client.py: servers, the tool catalog, call_tool.                    *)
(***************************************************************************)
\* the default servers of MCPClient.__init__
Servers == {"synth-mcp", "postgres-mcp"}

\* the tools a server lists (tools/list), by local name
ServerTools ==
    [server_id \in Servers |->
        IF server_id = "synth-mcp" THEN {"search_tables"} ELSE {"execute_query"}]

\* a full_name that is the local name alone
full_name_without_server(server_id, name) == name

\* MCPTool.full_name
full_name_of(server_id, name) == server_id \o "__" \o name

\* how the handshake with one server can go: session and tools, no session
\* (the initialize request fails or carries no mcp-session-id), or a session and
\* a failed tools/list
HandshakeOutcomes == {"connected", "no_session", "no_tools"}

\* requests posted to one server by initialize(): `initialize`, then `tools/list`
\* when a session id came back
HandshakeRequests(how) == IF how = "no_session" THEN 1 ELSE 2

\* self._tools after initialize(), given how each server's handshake went
CatalogAfter(how) ==
    UNION {{full_name_of(server_id, name) : name \in ServerTools[server_id]} :
              server_id \in {sv \in Servers : how[sv] = "connected"}}

RECURSIVE SumOver(_, _)
\* the sum of f over the set S
SumOver(f, S) ==
    IF S = {} THEN 0
    ELSE LET x == CHOOSE y \in S : TRUE IN f[x] + SumOver(f, S \ {x})

RECURSIVE FindFrom(_, _, _)
\* the first position >= i where sub occurs in s, 0 when there is none
FindFrom(s, sub, i) ==
    IF i + Len(sub) - 1 > Len(s) THEN 0
    ELSE IF SubSeq(s, i, i + Len(sub) - 1) = sub THEN i
    ELSE FindFrom(s, sub, i + 1)

\* str.find / str.index, counted from 1
Find(s, sub) == FindFrom(s, sub, 1)

\* `sub in s`
Contains(s, sub) == Find(s, sub) > 0

\* a parse_tool_name that splits at the last "__" (full_name.rsplit("__", 1))
parse_tool_name_at_last(full_name) ==
    IF Contains(full_name, "__")
    THEN LET at == CHOOSE i \in 1..(Len(full_name) - 1) :
                      /\ SubSeq(full_name, i, i + 1) = "__"
                      /\ \A j \in (i + 1)..(Len(full_name) - 1) :
                            SubSeq(full_name, j, j + 1) # "__"
         IN  <<SubSeq(full_name, 1, at - 1), SubSeq(full_name, at + 2, Len(full_name))>>
    ELSE <<"default", full_name>>

\* parse_tool_name: full_name.split("__", 1), or ("default", full_name)
parse_tool_name(full_name) ==
    IF Contains(full_name, "__")
    THEN <<SubSeq(full_name, 1, Find(full_name, "__") - 1),
           SubSeq(full_name, Find(full_name, "__") + 2, Len(full_name))>>
    ELSE <<"default", full_name>>

\* tool results of the model, as json.dumps(tool_result, default=str) writes them
ToolResultOk == "{\"rows\": [[250]]}"
ToolResultError == "{\"error\": \"relation does not exist\"}"
UnknownToolResult(full_name) == "{\"error\": \"Unknown tool: " \o full_name \o "\"}"

\* call_tool(full_name, arguments): the results it can return and the requests
\* it posts; an unknown tool is answered without a request.  A known tool has
\* a session (initialize() stores the session before the tools), so the call
\* is one tools/call request, which succeeds or comes back as an error.
call_tool(catalog, full_name) ==
    IF full_name \notin catalog
    THEN {[result |-> UnknownToolResult(full_name), requests |-> 0, failed |-> FALSE]}
    ELSE {[result |-> ToolResultOk, requests |-> 1, failed |-> FALSE],
          [result |-> ToolResultError, requests |-> 1, failed |-> TRUE]}

(***************************************************************************)
(* message_handler.py: tool calls, their arguments and their details.      *)
(***************************************************************************)
\* message_handler.py:28
MAX_ITERATIONS == 10

\* max_messages of the window handed to the LLM
LLM_WINDOW == 15

\* JSON texts the LLM sends as arguments in the model
SqlArguments == "{\"sql\": \"SELECT COUNT(*) FROM synthetic.merchants\"}"
SearchArguments == "{\"query\": \"merchants\"}"
MalformedArguments == "{\"sql\": "
DanglingSchemaArguments == "{\"sql\": \"SELECT COUNT(*) FROM synthetic. merchants\"}"
ListArguments == "[\"merchants\"]"
NullArguments == "null"

\* the argument texts of the model that json.loads parses; on the others it
\* raises JSONDecodeError
IsJson(raw) == raw \in {SqlArguments, SearchArguments, DanglingSchemaArguments,
                         ListArguments, NullArguments}

\* a JSON value that is not an object (a list, null), written in the type of
\* the dicts under the key no dict has
NotObject(kind) == {<<"", kind>>}

\* isinstance(arguments, dict)
IsObject(arguments) == \A kv \in arguments : kv[1] # ""

\* json.loads on the argument texts of the model that parse: a dict, written
\* as a set of key/value pairs, a list or None
json_loads(raw) ==
    IF raw = ListArguments THEN NotObject("list")
    ELSE IF raw = NullArguments THEN NotObject("null")
    ELSE IF raw = SqlArguments THEN {<<"sql", "SELECT COUNT(*) FROM synthetic.merchants">>}
    ELSE IF raw = DanglingSchemaArguments
         THEN {<<"sql", "SELECT COUNT(*) FROM synthetic. merchants">>}
    ELSE {<<"query", "merchants">>}

\* `key in arguments`
HasKey(arguments, key) == \E kv \in arguments : kv[1] = key

\* arguments[key]
Get(arguments, key) == (CHOOSE kv \in arguments : kv[1] = key)[2]

\* lines 286-293: raw arguments that are None, empty or malformed become {}
parse_arguments(raw_args) ==
    IF TruthyStr(raw_args)
    THEN IF IsJson(raw_args[1]) THEN json_loads(raw_args[1]) ELSE {}
    ELSE {}

\* str.upper() of one character
UpperChar(c) ==
    IF \E i \in 1..Len(LowerCase) : CharAt(LowerCase, i) = c
    THEN CharAt(UpperCase, CHOOSE i \in 1..Len(LowerCase) : CharAt(LowerCase, i) = c)
    ELSE c

RECURSIVE Upper(_)
\* str.upper()
Upper(s) == IF s = "" THEN "" ELSE UpperChar(CharAt(s, 1)) \o Upper(Tail(s))

RECURSIVE Replace(_, _, _)
\* str.replace(old, new)
Replace(s, old, new) ==
    IF Find(s, old) = 0 THEN s
    ELSE SubSeq(s, 1, Find(s, old) - 1) \o new
         \o Replace(SubSeq(s, Find(s, old) + Len(old), Len(s)), old, new)

\* the backtick of a Slack code span, written as a bar in the model
BT == "|"

\* s.split()[0]; "IndexError" when s has no word
FirstWord(s) == IF Split(s) = <<>> THEN "IndexError" ELSE Split(s)[1]

\* ToolCallInfo.detail for an sql argument: the table after FROM
SqlDetail(sql) ==
    IF Contains(Upper(sql), "FROM ")
    THEN LET idx  == Find(Upper(sql), "FROM ") + 5
             rest == IF idx <= Len(sql)
                     THEN FirstWord(Strip(SubSeq(sql, idx, Len(sql))))
                     ELSE ""
             table == IF rest = "" THEN ""
                      ELSE IF rest = "IndexError" THEN "IndexError"
                      ELSE FirstWord(Replace(rest, "synthetic.", ""))
         IN  IF table = "IndexError" THEN "IndexError"
             ELSE IF table = "" THEN ""
             ELSE BT \o table \o BT
    ELSE "_query_"

\* ToolCallInfo.detail; "TypeError" when `"sql" in args` is asked of None, ""
\* for a list none of whose items is one of the keys
detail(arguments) ==
    IF arguments = NotObject("null") THEN "TypeError"
    ELSE IF HasKey(arguments, "sql") THEN SqlDetail(Get(arguments, "sql"))
    ELSE IF HasKey(arguments, "table") THEN BT \o Get(arguments, "table") \o BT
    ELSE IF HasKey(arguments, "table_name") THEN BT \o Get(arguments, "table_name") \o BT
    ELSE IF HasKey(arguments, "query")
         THEN IF Len(Get(arguments, "query")) > 30
              THEN "\"" \o SubSeq(Get(arguments, "query"), 1, 30) \o "...\""
              ELSE "\"" \o Get(arguments, "query") \o "\""
    ELSE IF HasKey(arguments, "limit") THEN "(limit " \o Get(arguments, "limit") \o ")"
    ELSE ""

\* the arguments the model's tool calls parse to, and their details, computed once
ParsedArguments == {parse_arguments(raw) :
                       raw \in {Nothing, Some(""), Some(SqlArguments),
                                Some(SearchArguments), Some(MalformedArguments),
                                Some(DanglingSchemaArguments), Some(ListArguments),
                                Some(NullArguments)}}

\* sql tracking that lists a query once
track_sql_once(sql_queries, arguments) ==
    IF HasKey(arguments, "sql")
          /\ \A i \in 1..Len(sql_queries) : sql_queries[i] # Get(arguments, "sql")
    THEN Append(sql_queries, Get(arguments, "sql"))
    ELSE sql_queries

\* lines 331-333: `if "sql" in arguments: sql_queries.append(arguments["sql"])`
track_sql(sql_queries, arguments) ==
    IF HasKey(arguments, "sql")
    THEN Append(sql_queries, Get(arguments, "sql"))
    ELSE sql_queries

\* str(e) of the exceptions ToolCallInfo.detail raises
DetailErrors ==
    [IndexError |-> "list index out of range",
     TypeError |-> "argument of type 'NoneType' is not iterable"]

Detail == [arguments \in ParsedArguments |-> detail(arguments)]

\* a tool call of an LLM response
ToolCall(id, name, raw_args) ==
    [id |-> id, type |-> "function", function |-> [name |-> name, arguments |-> raw_args]]

\* one line of format_progress_message for a finished or running tool
ProgressLine(mark, tool_info) ==
    mark \o " " \o BT \o tool_info.tool \o BT
         \o (IF tool_info.detail # "" THEN " -> " \o tool_info.detail ELSE "")

\* a progress message that lists the latest finished tool only
format_progress_message_latest(tools_in_progress, tools_completed) ==
    Join("\n",
         <<"Working on it...">>
         \o (IF tools_completed = <<>> THEN <<>>
             ELSE <<ProgressLine("done", tools_completed[Len(tools_completed)])>>)
         \o [i \in 1..Len(tools_in_progress) |-> ProgressLine("running", tools_in_progress[i])])

\* format_progress_message(tools_in_progress, tools_completed)
format_progress_message(tools_in_progress, tools_completed) ==
    Join("\n",
         <<"Working on it...">>
         \o [i \in 1..Len(tools_completed) |->
               ProgressLine(IF tools_completed[i].status = "complete" THEN "done" ELSE "failed",
                            tools_completed[i])]
         \o [i \in 1..Len(tools_in_progress) |-> ProgressLine("running", tools_in_progress[i])])

(***************************************************************************)
(* app.py and message_handler.py: the background tasks.                    *)
(*                                                                         *)
(* tasks[t] is the t-th task made by asyncio.create_task(                  *)
(* _process_and_respond(...)).  Its pc is the await it stands at:          *)
(*   "start"     send_thinking_message, context_store.get_or_create        *)
(*   "mcp"       async with MCPClient(): initialize()                      *)
(*   "entry"     process_message: add_user_message, the messages list      *)
(*   "lookup"    process_message: the cache lookup                         *)
(*   "loop"      the head of `while iteration < MAX_ITERATIONS`            *)
(*   "tools"     `for tool_call in response.tool_calls`                    *)
(*   "finished"  the loop produced its ProcessingResult                    *)
(*   "returned"  process_message returned; context_store.save is next      *)
(*   "respond"   replay, update_message, message_question_map              *)
(*   "done"                                                                *)
(* placeholder holds the texts the task's placeholder message has shown,   *)
(* in order: the text it was posted with, then the text of every           *)
(* chat_update on it; raised is what the except branch of the task caught, *)
(* escaped tells that an exception left the task.                          *)
(* Two fields record what the task did at get_or_create: loaded is the     *)
(* number of messages the context came with, overlaps the tasks of the     *)
(* same thread that were between their get_or_create and their save then.  *)
(***************************************************************************)
\* process_message has produced no result yet
NoResult == [response_text |-> "", iterations |-> 0, from_cache |-> FALSE, none |-> TRUE]

\* the task created for a question in a thread
NewTask(thread_key, question) ==
    [pc |-> "start",
     thread_key |-> thread_key,
     question |-> question,
     context |-> ThreadContext(thread_key, USER, <<>>),
     catalog |-> {},
     messages |-> <<>>,
     iteration |-> 0,
     used_fallback |-> FALSE,
     pending |-> <<>>,
     tools_completed |-> <<>>,
     tools_used |-> <<>>,
     sql_queries |-> <<>>,
     progress |-> <<>>,
     llm_calls |-> 0,
     mcp_requests |-> 0,
     hit |-> NoRow,
     result |-> NoResult,
     loaded |-> 0,
     overlaps |-> {},
     placeholder |-> <<>>,
     raised |-> Nothing,
     escaped |-> FALSE,
     event |-> Nothing]

\* the ProcessingResult the loop returns
ProcessingResult(task, response_text, error) ==
    [response_text |-> response_text,
     used_fallback |-> task.used_fallback,
     tools_used |-> task.tools_used,
     iterations |-> task.iteration,
     error |-> error,
     sql_queries |-> task.sql_queries,
     progress_events |-> task.progress,
     from_cache |-> FALSE]

\* the response texts of message_handler.py
NO_RESPONSE_TEXT == "I processed your request but have no response."
MAX_ITERATIONS_TEXT == "I reached the maximum number of tool calls. Here's what I found so far."
ErrorText(e) == "I encountered an error: " \o e

\* questions users ask in the model
AppQuestions == {"Count merchants now", "list tables"}

\* the id of the k-th tool call the LLM hands to task t
CallId(t, k) == "call_" \o ToString(t) \o "_" \o ToString(k)

\* tool calls the LLM has handed to a task so far
CallsMade(task) == Len(task.tools_used) + Len(task.pending)

\* the usual tool-calling response: one SQL query
UsualToolCalls(t) ==
    << ToolCall(CallId(t, CallsMade(tasks[t]) + 1), "postgres-mcp__execute_query",
                Some(SqlArguments)) >>

\* the other tool-calling responses of the model: two calls in one response, a
\* call without arguments, with empty or malformed arguments, of a tool that no
\* server lists, and two calls of which the second carries SQL with a blank
\* after the schema name
UnusualToolCalls(t) ==
    LET k == CallsMade(tasks[t]) IN
    { << ToolCall(CallId(t, k + 1), "synth-mcp__search_tables", Some(SearchArguments)),
         ToolCall(CallId(t, k + 2), "postgres-mcp__execute_query", Some(SqlArguments)) >>,
      << ToolCall(CallId(t, k + 1), "synth-mcp__search_tables", Nothing) >>,
      << ToolCall(CallId(t, k + 1), "postgres-mcp__execute_query", Some("")) >>,
      << ToolCall(CallId(t, k + 1), "postgres-mcp__execute_query", Some(MalformedArguments)) >>,
      << ToolCall(CallId(t, k + 1), "get_time", Nothing) >>,
      << ToolCall(CallId(t, k + 1), "synth-mcp__search_tables", Some(SearchArguments)),
         ToolCall(CallId(t, k + 2), "postgres-mcp__execute_query",
                  Some(DanglingSchemaArguments)) >> }

\* LLM responses whose tool calls carry arguments that parse to something
\* other than an object: a list followed by a usual call, and null
NonObjectToolCalls(t) ==
    LET k == CallsMade(tasks[t]) IN
    { << ToolCall(CallId(t, k + 1), "synth-mcp__search_tables", Some(ListArguments)),
         ToolCall(CallId(t, k + 2), "postgres-mcp__execute_query", Some(SqlArguments)) >>,
      << ToolCall(CallId(t, k + 1), "synth-mcp__search_tables", Some(NullArguments)),
         ToolCall(CallId(t, k + 2), "postgres-mcp__execute_query", Some(SqlArguments)) >> }

\* `while iteration < MAX_ITERATIONS` that runs once more
LoopGuardOneMore(iteration) == iteration <= MAX_ITERATIONS

\* `while iteration < MAX_ITERATIONS`
LoopGuard(iteration) == iteration < MAX_ITERATIONS

\* a cleanup task as startup() creates it: in its first sleep, no run yet
NewCleanupTask == [pc |-> "sleep", log |-> <<>>]

\* the application after startup(): the handlers receive events, the stores
\* are open and both cleanup tasks sleep
Started ==
    [pc |-> "running",
     cleanup_task |-> NewCleanupTask,
     cache_cleanup_task |-> NewCleanupTask]

\* main(): events reach the handlers while handler.start_async() runs
Receiving == lifecycle.pc = "running"

\* QueryCacheStore._db is open until shutdown() has closed it
CacheStoreOpen == lifecycle.pc \in {"running", "cleanup_cancelled"}

\* ThreadContextStore._db is open until shutdown() has closed it
ContextStoreOpen == lifecycle.pc \in {"running", "cleanup_cancelled", "cache_closed"}

\* the workspace before the first event
NewSlack == [reactions |-> {}, posted |-> <<>>, pending |-> {}]

AppInit ==
    /\ tasks = <<>>
    /\ thread_contexts = [thread_key \in ThreadKeys |-> NoThread]
    /\ message_question_map = {}
    /\ cache_auto_save \in BOOLEAN
    /\ slack = NewSlack
    /\ lifecycle = Started
    /\ env \in {[tasks |-> 1, tool_turns |-> MaxToolTurns, unusual |-> MaxUnusual,
                 ticks |-> 0, faults |-> 0, events |-> 0, non_object |-> 0],
                [tasks |-> MaxTasks, tool_turns |-> MaxOverlapTurns, unusual |-> 0,
                 ticks |-> 0, faults |-> 0, events |-> 0, non_object |-> 0],
                [tasks |-> MaxTasks, tool_turns |-> MaxTickTurns, unusual |-> 0,
                 ticks |-> MaxTicks, faults |-> 0, events |-> 0, non_object |-> 0]}

\* the dispatcher is not running
AppIdle ==
    /\ tasks = <<>>
    /\ thread_contexts = [thread_key \in ThreadKeys |-> NoThread]
    /\ message_question_map = {}
    /\ cache_auto_save = FALSE
    /\ slack = NewSlack
    /\ lifecycle = Started
    /\ env = [tasks |-> 0, tool_turns |-> 0, unusual |-> 0, ticks |-> 0, faults |-> 0, events |-> 0, non_object |-> 0]

\* handle_mention: a non-empty message starts a background task
HandleMention(thread_key, question) ==
    /\ Receiving
    /\ env.tasks > 0
    /\ env' = [env EXCEPT !.tasks = @ - 1]
    /\ tasks' = Append(tasks, NewTask(thread_key, question))
    /\ UNCHANGED <<thread_contexts, message_question_map, cache_auto_save>>
    /\ UNCHANGED <<slack, mcpVars, lifeVars, winVars, llmVars, cacheVars>>

\* send_thinking_message: the text the placeholder is posted with
THINKING_TEXT == "\\U0001F914 Thinking..."

\* _process_and_respond.on_progress: update_message(thinking_ts, progress_text)
on_progress(placeholder, progress_text) == Append(placeholder, progress_text)

\* the positions of a task between its get_or_create and its save
HoldsContext == {"mcp", "entry", "lookup", "loop", "tools", "finished", "returned"}

\* _process_and_respond: send_thinking_message, context_store.get_or_create
GetOrCreate(t) ==
    /\ tasks[t].pc = "start"
    /\ ContextStoreOpen
    /\ tasks' = [tasks EXCEPT
          ![t].pc = "mcp",
          ![t].placeholder = <<THINKING_TEXT>>,
          ![t].context = get_or_create(tasks[t].thread_key, USER),
          ![t].loaded = Len(get_or_create(tasks[t].thread_key, USER).messages),
          ![t].overlaps = {u \in DOMAIN tasks :
                              /\ tasks[u].pc \in HoldsContext
                              /\ tasks[u].thread_key = tasks[t].thread_key}]
    /\ thread_contexts' = AfterGetOrCreate(tasks[t].thread_key, USER)
    /\ UNCHANGED <<message_question_map, cache_auto_save, env>>
    /\ UNCHANGED <<slack, mcpVars, lifeVars, winVars, llmVars, cacheVars>>

\* `async with MCPClient() as mcp_client`: initialize() shakes hands with every
\* server; a handshake that does not connect is unusual
OpenMCP(t) ==
    /\ tasks[t].pc = "mcp"
    /\ \E how \in [Servers -> HandshakeOutcomes] :
          LET unusual == IF \E sv \in Servers : how[sv] # "connected" THEN 1 ELSE 0 IN
          /\ unusual <= env.unusual
          /\ Cardinality({sv \in Servers : how[sv] # "connected"}) <= 1
          /\ env' = [env EXCEPT !.unusual = @ - unusual]
          /\ tasks' = [tasks EXCEPT
                ![t].pc = "entry",
                ![t].catalog = CatalogAfter(how),
                ![t].mcp_requests =
                    @ + SumOver([sv \in Servers |-> HandshakeRequests(how[sv])], Servers)]
    /\ UNCHANGED <<thread_contexts, message_question_map, cache_auto_save>>
    /\ UNCHANGED <<slack, mcpVars, lifeVars, winVars, llmVars, cacheVars>>

\* process_message, lines 230-248: the user message joins the context, the
\* messages for the LLM are the system prompt and the window of the context
AddUserMessage(t) ==
    /\ tasks[t].pc = "entry"
    /\ LET context == add_user_message(tasks[t].context, tasks[t].question) IN
       tasks' = [tasks EXCEPT
            ![t].pc = "lookup",
            ![t].context = context,
            ![t].messages = <<[role |-> "system", content |-> "system prompt",
                               tool_calls |-> Nothing, tool_call_id |-> Nothing]>>
                            \o get_messages_for_llm(context, LLM_WINDOW)]
    /\ UNCHANGED <<thread_contexts, message_question_map, cache_auto_save, env>>
    /\ UNCHANGED <<slack, mcpVars, lifeVars, winVars, llmVars, cacheVars>>

\* find_match(question) run to its return: the rows it can return, NoRow for None
find_match(question) ==
    IF ~cache_enabled THEN {NoRow}
    ELSE LET normalized == Normalized[question]
             tier1 == find_by_hash(hash_question(normalized))
         IN  IF Usable(tier1) THEN {tier1}
             ELSE UNION {IF Usable(tier2) THEN {tier2}
                         ELSE {IF Usable(tier3) THEN tier3 ELSE NoRow :
                                  tier3 \in find_fuzzy(normalized)} :
                            tier2 \in find_by_normalized(normalized)}

\* the ProcessingResult returned for a cache hit
CachedResult(cached) ==
    [response_text |-> cached.response_text,
     used_fallback |-> FALSE,
     tools_used |-> cached.tools_used,
     iterations |-> 0,
     error |-> Nothing,
     sql_queries |-> cached.sql_queries,
     progress_events |-> cached.progress_events,
     from_cache |-> TRUE]

\* process_message, cache integration: the question is looked up before the
\* loop; a hit that is not expired is returned with from_cache = true
CacheLookup(t) ==
    /\ tasks[t].pc = "lookup"
    /\ cache_enabled => CacheStoreOpen
    /\ \A row \in cache : row.hit_count < MaxHits
    /\ \E cached \in find_match(tasks[t].question) :
          IF cached # NoRow
          THEN /\ cache' = record_hit(cached.id)
               /\ tasks' = [tasks EXCEPT ![t].pc = "returned",
                                         ![t].hit = cached,
                                         ![t].result = CachedResult(cached)]
          ELSE /\ cache' = cache
               /\ tasks' = [tasks EXCEPT ![t].pc = "loop"]
    /\ UNCHANGED <<thread_contexts, message_question_map, cache_auto_save, env>>
    /\ UNCHANGED <<slack, mcpVars, lifeVars, winVars, llmVars, next_rowid, cache_enabled, now, fm>>

\* an iteration whose LLM response carries tool calls (lines 250-277)
LLMRequestsTools(t) ==
    /\ tasks[t].pc = "loop"
    /\ LoopGuard(tasks[t].iteration)
    /\ env.tool_turns > 0
    /\ \E tool_calls \in {UsualToolCalls(t)} \cup
                         (IF env.unusual > 0 THEN UnusualToolCalls(t) ELSE {}) \cup
                         (IF env.non_object > 0 THEN NonObjectToolCalls(t) ELSE {}) :
          /\ env' = [env EXCEPT
                !.tool_turns = @ - 1,
                !.unusual = IF tool_calls \in UnusualToolCalls(t) THEN @ - 1 ELSE @,
                !.non_object = IF tool_calls \in NonObjectToolCalls(t) THEN @ - 1 ELSE @]
          /\ tasks' = [tasks EXCEPT
                ![t].pc = "tools",
                ![t].iteration = @ + 1,
                ![t].llm_calls = @ + 1,
                ![t].used_fallback = FALSE,
                ![t].messages = Append(@, [role |-> "assistant", content |-> "",
                                           tool_calls |-> Some(tool_calls),
                                           tool_call_id |-> Nothing]),
                ![t].context = add_assistant_message(@, Nothing, Some(tool_calls)),
                ![t].pending = tool_calls]
    /\ UNCHANGED <<thread_contexts, message_question_map, cache_auto_save>>
    /\ UNCHANGED <<slack, mcpVars, lifeVars, winVars, llmVars, cacheVars>>

\* final responses of the LLM in the model: the usual one, and the unusual ones
\* (no content, empty content, an answer of the fallback model)
UsualAnswer == [content |-> Some("There are 250 merchants."), used_fallback |-> FALSE]

UnusualAnswers ==
    {[content |-> Nothing, used_fallback |-> FALSE],
     [content |-> Some(""), used_fallback |-> FALSE],
     [content |-> Some("There are 250 merchants."), used_fallback |-> TRUE]}

\* an iteration whose LLM response has no tool calls (lines 250-266, 353-366)
LLMAnswers(t) ==
    /\ tasks[t].pc = "loop"
    /\ LoopGuard(tasks[t].iteration)
    /\ \E response \in {UsualAnswer} \cup (IF env.unusual > 0 THEN UnusualAnswers ELSE {}) :
          LET final_response == StrOr(response.content, NO_RESPONSE_TEXT)
              task == [tasks[t] EXCEPT
                         !.iteration = @ + 1,
                         !.llm_calls = @ + 1,
                         !.used_fallback = response.used_fallback,
                         !.context = add_assistant_message(@, Some(final_response), Nothing)]
          IN  /\ env' = [env EXCEPT !.unusual = IF response = UsualAnswer THEN @ ELSE @ - 1]
              /\ tasks' = [tasks EXCEPT ![t] =
                    [task EXCEPT !.pc = "finished",
                                 !.result = ProcessingResult(task, final_response, Nothing)]]
    /\ UNCHANGED <<thread_contexts, message_question_map, cache_auto_save>>
    /\ UNCHANGED <<slack, mcpVars, lifeVars, winVars, llmVars, cacheVars>>

\* what call_with_fallback raises, as str(e)
LLMErrors == {"No LLM provider available"}

\* an iteration whose LLM call raises (lines 250-261, 368-378)
LLMRaises(t) ==
    /\ tasks[t].pc = "loop"
    /\ LoopGuard(tasks[t].iteration)
    /\ env.unusual > 0
    /\ \E e \in LLMErrors :
          LET task == [tasks[t] EXCEPT !.iteration = @ + 1, !.llm_calls = @ + 1]
          IN  tasks' = [tasks EXCEPT ![t] =
                    [task EXCEPT !.pc = "finished",
                                 !.result = ProcessingResult(task, ErrorText(e), Some(e))]]
    /\ env' = [env EXCEPT !.unusual = @ - 1]
    /\ UNCHANGED <<thread_contexts, message_question_map, cache_auto_save>>
    /\ UNCHANGED <<slack, mcpVars, lifeVars, winVars, llmVars, cacheVars>>

\* a loop that, with iteration at MAX_ITERATIONS, asks the LLM once more for
\* an answer and returns that
MaxIterationsReachedAsksAgain(t) ==
    /\ tasks[t].pc = "loop"
    /\ ~LoopGuard(tasks[t].iteration)
    /\ LET task == [tasks[t] EXCEPT !.llm_calls = @ + 1]
       IN  tasks' = [tasks EXCEPT ![t] =
               [task EXCEPT !.pc = "finished",
                            !.result = ProcessingResult(task, UsualAnswer.content[1], Nothing)]]
    /\ UNCHANGED <<thread_contexts, message_question_map, cache_auto_save, env>>
    /\ UNCHANGED <<slack, mcpVars, lifeVars, winVars, llmVars, cacheVars>>

\* the loop ends because iteration reached MAX_ITERATIONS (lines 380-389)
MaxIterationsReached(t) ==
    /\ tasks[t].pc = "loop"
    /\ ~LoopGuard(tasks[t].iteration)
    /\ tasks' = [tasks EXCEPT
          ![t].pc = "finished",
          ![t].result = ProcessingResult(tasks[t], MAX_ITERATIONS_TEXT, Nothing)]
    /\ UNCHANGED <<thread_contexts, message_question_map, cache_auto_save, env>>
    /\ UNCHANGED <<slack, mcpVars, lifeVars, winVars, llmVars, cacheVars>>

\* a `for` statement that takes the tool calls from the end of the list
NextToolCallFromEnd(pending) == pending[Len(pending)]

\* `for tool_call in response.tool_calls`: the call the next pass works on,
\* pending being the calls of the response the loop has not worked on yet
NextToolCall(pending) == Head(pending)

\* one pass of `for tool_call in response.tool_calls` (lines 280-348): progress
\* update, call_tool, bookkeeping, the tool message; after the last call the
\* "analyzing" update, and back to the head of the loop
ExecuteTool(t) ==
    /\ tasks[t].pc = "tools"
    /\ LET task == tasks[t]
           tool_call == NextToolCall(task.pending)
           full_name == tool_call.function.name
           arguments == parse_arguments(tool_call.function.arguments)
           parsed == parse_tool_name(full_name)
           calling == [server |-> parsed[1], tool |-> parsed[2], arguments |-> arguments,
                       status |-> "calling", detail |-> Detail[arguments]]
           progress_msg == format_progress_message(<<calling>>, task.tools_completed)
       IN  IF Detail[arguments] \in DOMAIN DetailErrors
           THEN /\ tasks' = [tasks EXCEPT
                      ![t].pc = "finished",
                      ![t].result = ProcessingResult(task, ErrorText(DetailErrors[Detail[arguments]]),
                                                     Some(DetailErrors[Detail[arguments]]))]
                /\ env' = env
           ELSE \E r \in call_tool(task.catalog, full_name) :
                  LET tool_info == [calling EXCEPT !.status = "complete"]
                      completed == Append(task.tools_completed, tool_info)
                      last == Len(task.pending) = 1
                      analyzing == format_progress_message(<<>>, completed)
                                       \o "\n\nAnalyzing results..."
                  IN  /\ r.failed => env.unusual > 0
                      /\ env' = [env EXCEPT !.unusual = IF r.failed THEN @ - 1 ELSE @]
                      /\ tasks' = [tasks EXCEPT
                            ![t].pc = IF last THEN "loop" ELSE "tools",
                            ![t].pending = Tail(@),
                            ![t].mcp_requests = @ + r.requests,
                            ![t].tools_completed = completed,
                            ![t].tools_used =
                                Append(@, [server |-> parsed[1], tool |-> parsed[2],
                                           arguments |-> arguments,
                                           detail |-> Detail[arguments]]),
                            ![t].sql_queries = track_sql(@, arguments),
                            ![t].messages =
                                Append(@, [role |-> "tool", content |-> r.result,
                                           tool_calls |-> Nothing,
                                           tool_call_id |-> Some(tool_call.id)]),
                            ![t].context = add_tool_result(@, tool_call.id, r.result),
                            ![t].progress =
                                IF last
                                THEN @ \o <<progress_msg, analyzing>>
                                ELSE Append(@, progress_msg),
                            ![t].placeholder =
                                IF last
                                THEN on_progress(on_progress(@, progress_msg), analyzing)
                                ELSE on_progress(@, progress_msg)]
    /\ UNCHANGED <<thread_contexts, message_question_map, cache_auto_save>>
    /\ UNCHANGED <<slack, mcpVars, lifeVars, winVars, llmVars, cacheVars>>

\* process_message that never writes to the cache
FinishProcessMessageNeverSaves(t) ==
    /\ tasks[t].pc = "finished"
    /\ tasks' = [tasks EXCEPT ![t].pc = "returned"]
    /\ UNCHANGED <<thread_contexts, message_question_map, cache_auto_save, env>>
    /\ UNCHANGED <<slack, mcpVars, lifeVars, winVars, llmVars, cacheVars>>

\* process_message, cache integration: with auto-save on, a result without
\* error is written through to the cache before process_message returns
FinishProcessMessage(t) ==
    /\ tasks[t].pc = "finished"
    /\ (cache_auto_save /\ cache_enabled /\ tasks[t].result.error = Nothing) => CacheStoreOpen
    /\ tasks' = [tasks EXCEPT ![t].pc = "returned"]
    /\ IF cache_auto_save /\ cache_enabled /\ tasks[t].result.error = Nothing
       THEN /\ SaveReturns(tasks[t].question) # -1 => next_rowid <= MaxInserts
            /\ cache' = SavedCache(tasks[t].question,
                                   StoredPayload(tasks[t].result))
            /\ next_rowid' = IF SaveReturns(tasks[t].question) # -1
                             THEN next_rowid + 1 ELSE next_rowid
       ELSE UNCHANGED <<cache, next_rowid>>
    /\ UNCHANGED <<thread_contexts, message_question_map, cache_auto_save, env>>
    /\ UNCHANGED <<slack, mcpVars, lifeVars, winVars, llmVars, cache_enabled, now, fm>>

\* _process_and_respond: `await context_store.save(thread_context)`
SaveContext(t) ==
    /\ tasks[t].pc = "returned"
    /\ ContextStoreOpen
    /\ tasks' = [tasks EXCEPT ![t].pc = "respond"]
    /\ thread_contexts' = AfterSave(tasks[t].context)
    /\ UNCHANGED <<message_question_map, cache_auto_save, env>>
    /\ UNCHANGED <<slack, mcpVars, lifeVars, winVars, llmVars, cacheVars>>

\* format_response_for_slack: the fallback text of the rendered answer
fallback_text(result) ==
    IF Len(result.response_text) > 500
    THEN SubSeq(result.response_text, 1, 500) \o "..."
    ELSE result.response_text

\* _process_and_respond, lines 358-365: the progress events of a result from
\* the cache are shown on the placeholder one after the other
Replay(placeholder, result) ==
    IF result.from_cache /\ result.progress_events # <<>>
    THEN placeholder \o result.progress_events
    ELSE placeholder

\* _process_and_respond that ends on the replay
RespondWithoutAnswer(t) ==
    /\ tasks[t].pc = "respond"
    /\ tasks' = [tasks EXCEPT
          ![t].pc = "done",
          ![t].placeholder = Replay(@, tasks[t].result)]
    /\ message_question_map' = message_question_map \cup
          {[message_key |-> t, question |-> tasks[t].question,
            result |-> tasks[t].result, thread_ts |-> tasks[t].thread_key]}
    /\ UNCHANGED <<thread_contexts, cache_auto_save, env>>
    /\ UNCHANGED <<slack, mcpVars, lifeVars, winVars, llmVars, cacheVars>>

\* _process_and_respond: replay, the final update_message, message_question_map
Respond(t) ==
    /\ tasks[t].pc = "respond"
    /\ tasks' = [tasks EXCEPT
          ![t].pc = "done",
          ![t].placeholder = Append(Replay(@, tasks[t].result),
                                    fallback_text(tasks[t].result))]
    /\ message_question_map' = message_question_map \cup
          {[message_key |-> t, question |-> tasks[t].question,
            result |-> tasks[t].result, thread_ts |-> tasks[t].thread_key]}
    /\ UNCHANGED <<thread_contexts, cache_auto_save, env>>
    /\ UNCHANGED <<slack, mcpVars, lifeVars, winVars, llmVars, cacheVars>>

\* client.reactions_add(timestamp=message_ts, name=name)
reactions_add(message_key, name) ==
    [slack EXCEPT !.reactions = @ \cup {[message_key |-> message_key, name |-> name]}]

\* `if cache_id > 0` (app.py:563)
Saved(cache_id) == cache_id > 0

\* handle_reaction_added, reaction "package" on a message of the map: a result
\* from the cache is acknowledged; a result that used tools is saved, and the
\* save is confirmed when it returned a positive id
ReactionPackage(entry) ==
    /\ Receiving
    /\ entry \in message_question_map
    /\ LET saves == ~entry.result.from_cache /\ entry.result.tools_used # <<>>
           cache_id == SaveReturns(entry.question)
           added == IF entry.result.from_cache
                    THEN reactions_add(entry.message_key, "ballot_box_with_check")
                    ELSE IF saves /\ Saved(cache_id)
                         THEN reactions_add(entry.message_key, "white_check_mark")
                         ELSE slack
       IN  /\ IF saves /\ cache_enabled
              THEN /\ cache_id # -1 => next_rowid <= MaxInserts
                   /\ cache' = SavedCache(entry.question, StoredPayload(entry.result))
                   /\ next_rowid' = IF cache_id # -1 THEN next_rowid + 1 ELSE next_rowid
              ELSE UNCHANGED <<cache, next_rowid>>
           /\ slack' = added
    /\ UNCHANGED <<tasks, thread_contexts, message_question_map, cache_auto_save, env>>
    /\ UNCHANGED <<mcpVars, lifeVars, winVars, llmVars, cache_enabled, now, fm>>

\* the text posted before a question is run again
CACHE_CLEARED_TEXT == "\\U0001F504 *Cache cleared* \\u2014 running fresh query..."

\* handle_reaction_added, reaction "arrows_counterclockwise": the entry of the
\* question is deleted; when one was deleted or the result came from the cache,
\* the question is run again in its thread, else the reaction is answered by "x"
ReactionRefresh(entry) ==
    /\ Receiving
    /\ entry \in message_question_map
    /\ LET question_hash == HashOf[entry.question]
           deleted == \E row \in cache : row.question_hash = question_hash
       IN  /\ cache' = {row \in cache : row.question_hash # question_hash}
           /\ IF deleted \/ entry.result.from_cache
              THEN /\ env.tasks > 0
                   /\ env' = [env EXCEPT !.tasks = @ - 1]
                   /\ tasks' = Append(tasks, NewTask(entry.thread_ts, entry.question))
                   /\ slack' = [slack EXCEPT
                         !.posted = Append(@, [thread |-> entry.thread_ts,
                                               text |-> CACHE_CLEARED_TEXT])]
              ELSE /\ UNCHANGED <<tasks, env>>
                   /\ slack' = reactions_add(entry.message_key, "x")
    /\ UNCHANGED <<thread_contexts, message_question_map, cache_auto_save>>
    /\ UNCHANGED <<mcpVars, lifeVars, winVars, llmVars, next_rowid, cache_enabled, now, fm>>

\* run_cleanup_task: after its sleep, cleanup_old_contexts(max_age_seconds)
CleanupOldContexts ==
    /\ thread_contexts' = cleanup_old_contexts(DEFAULT_CONTEXT_TTL_SECONDS)
    /\ UNCHANGED <<tasks, message_question_map, cache_auto_save, env>>
    /\ UNCHANGED <<slack, mcpVars, lifeVars, winVars, llmVars, cacheVars>>

\* a day and one sleep of the cleanup task pass between two messages; the
\* seconds a task takes are not counted
TimePasses ==
    /\ env.ticks > 0
    /\ \A t \in DOMAIN tasks : tasks[t].pc = "done"
    /\ env' = [env EXCEPT !.ticks = @ - 1]
    /\ now' = now + DEFAULT_CONTEXT_TTL_SECONDS + CLEANUP_INTERVAL_SECONDS
    /\ UNCHANGED <<tasks, thread_contexts, message_question_map, cache_auto_save>>
    /\ UNCHANGED <<slack, mcpVars, lifeVars, winVars, llmVars, cache, next_rowid, cache_enabled, fm>>

Next ==
    \/ \E thread_key \in ThreadKeys, question \in AppQuestions :
          HandleMention(thread_key, question)
    \/ \E t \in DOMAIN tasks : GetOrCreate(t)
    \/ \E t \in DOMAIN tasks : OpenMCP(t)
    \/ \E t \in DOMAIN tasks : AddUserMessage(t)
    \/ \E t \in DOMAIN tasks : CacheLookup(t)
    \/ \E t \in DOMAIN tasks : LLMRequestsTools(t)
    \/ \E t \in DOMAIN tasks : LLMAnswers(t)
    \/ \E t \in DOMAIN tasks : LLMRaises(t)
    \/ \E t \in DOMAIN tasks : MaxIterationsReached(t)
    \/ \E t \in DOMAIN tasks : ExecuteTool(t)
    \/ \E t \in DOMAIN tasks : FinishProcessMessage(t)
    \/ \E t \in DOMAIN tasks : SaveContext(t)
    \/ \E t \in DOMAIN tasks : Respond(t)
    \/ \E entry \in message_question_map : ReactionPackage(entry)
    \/ \E entry \in message_question_map : ReactionRefresh(entry)
    \/ CleanupOldContexts
    \/ TimePasses

(***************************************************************************)
(* mcp_client.py: one MCPClient, its handshake and its tool calls.         *)
(*                                                                         *)
(* mcp is one MCPClient as `async with MCPClient()` makes it:              *)
(*   pc        "new" before initialize(), "ready" after it, "closed" after *)
(*             close()                                                     *)
(*   _sessions server_id -> session id (Nothing: no entry)                 *)
(*   _tools    the values of self._tools, one per full_name                *)
(*   how       what each server answered during initialize()               *)
(*   last      the latest operation: the requests it posted, whether it    *)
(*             returned or raised, the value call_tool returned and the    *)
(*             answer of the server it worked on                           *)
(* The servers are the environment: each request is answered by a          *)
(* response the action draws from the responses a server can give.         *)
(***************************************************************************)
\* self.servers in the order of the default list (lines 105-118)
ServerOrder == <<"synth-mcp", "postgres-mcp">>

\* JSON-RPC envelopes the servers send, as texts
SynthToolsJson ==
    "{\"id\": 2, \"result\": {\"tools\": [{\"name\": \"search_tables\"}, {\"name\": \"list__tables\"}]}}"
PostgresToolsJson ==
    "{\"id\": 2, \"result\": {\"tools\": [{\"name\": \"execute_query\"}, {\"name\": \"search_tables\"}]}}"
NamelessToolJson ==
    "{\"id\": 2, \"result\": {\"tools\": [{\"name\": \"describe\"}, {\"description\": \"x\"}]}}"
ListErrorJson == "{\"id\": 2, \"error\": {\"code\": -32603, \"message\": \"internal error\"}}"
OkResultJson == "{\"id\": 3, \"result\": {\"rows\": [[250]]}}"
ToolErrorJson == "{\"id\": 3, \"error\": {\"code\": -32000, \"message\": \"relation does not exist\"}}"
SessionErrorJson == "{\"id\": 3, \"error\": {\"code\": -32001, \"message\": \"Session not found\"}}"
NullJson == "null"

\* the value of a key that a dict does not have
NoValue == [tools |-> Nothing, text |-> ""]

\* a JSON object with its keys among "result" and "error": the value of
\* "result" (its "tools" and its own text), the text of the value of "error",
\* and the text of the object itself
Dict(keys, result, error, text) ==
    [kind |-> "dict", keys |-> keys, result |-> result, error |-> error, text |-> text]

\* {}
EmptyDict == Dict({}, NoValue, "", "{}")

\* None
NullValue == [kind |-> "null", keys |-> {}, result |-> NoValue, error |-> "", text |-> "null"]

\* one entry of "tools": its "name" when it has one
ToolEntry(name) == [name |-> name]

\* the texts json.loads parses
JsonTexts == {SynthToolsJson, PostgresToolsJson, NamelessToolJson, ListErrorJson,
              OkResultJson, ToolErrorJson, SessionErrorJson, NullJson}

\* json.loads on the texts of JsonTexts; on every other text it raises
\* JSONDecodeError
loads(text) ==
    CASE text = SynthToolsJson ->
            Dict({"result"},
                 [tools |-> Some(<<ToolEntry(Some("search_tables")),
                                   ToolEntry(Some("list__tables"))>>),
                  text |-> "{\"tools\": [...]}"], "", text)
      [] text = PostgresToolsJson ->
            Dict({"result"},
                 [tools |-> Some(<<ToolEntry(Some("execute_query")),
                                   ToolEntry(Some("search_tables"))>>),
                  text |-> "{\"tools\": [...]}"], "", text)
      [] text = NamelessToolJson ->
            Dict({"result"},
                 [tools |-> Some(<<ToolEntry(Some("describe")), ToolEntry(Nothing)>>),
                  text |-> "{\"tools\": [...]}"], "", text)
      [] text = ListErrorJson ->
            Dict({"error"}, NoValue,
                 "{\"code\": -32603, \"message\": \"internal error\"}", text)
      [] text = OkResultJson ->
            Dict({"result"}, [tools |-> Nothing, text |-> "{\"rows\": [[250]]}"], "", text)
      [] text = ToolErrorJson ->
            Dict({"error"}, NoValue,
                 "{\"code\": -32000, \"message\": \"relation does not exist\"}", text)
      [] text = SessionErrorJson ->
            Dict({"error"}, NoValue,
                 "{\"code\": -32001, \"message\": \"Session not found\"}", text)
      [] OTHER -> NullValue

\* the position of the k-th '\n' of content; 0 for k = 0 and one past the
\* end of content for the k after the last
NewlineAt(content, k) ==
    LET newlines == {i \in 1..Len(content) : CharAt(content, i) = "\n"} IN
    IF k = 0 THEN 0
    ELSE IF k > Cardinality(newlines) THEN Len(content) + 1
    ELSE CHOOSE i \in newlines : Cardinality({j \in newlines : j < i}) = k - 1

\* content.split('\n')
SplitLines(content) ==
    LET n == Cardinality({i \in 1..Len(content) : CharAt(content, i) = "\n"}) IN
    [k \in 1..(n + 1) |->
        SubSeq(content, NewlineAt(content, k - 1) + 1, NewlineAt(content, k) - 1)]

\* line.startswith(prefix)
StartsWith(line, prefix) ==
    Len(line) >= Len(prefix) /\ SubSeq(line, 1, Len(prefix)) = prefix

\* parse_sse_response (lines 66-79): the JSON of the first line that begins
\* with "data: " and parses, {} when there is none
parse_sse_response(content) ==
    LET lines == SplitLines(content)
        data == {i \in 1..Len(lines) :
                    /\ StartsWith(lines[i], "data: ")
                    /\ SubSeq(lines[i], 7, Len(lines[i])) \in JsonTexts}
    IN  IF data = {} THEN EmptyDict
        ELSE LET first == CHOOSE i \in data : \A j \in data : i <= j
             IN  loads(SubSeq(lines[first], 7, Len(lines[first])))

\* how a server delivers an envelope: in an SSE frame, in an SSE stream whose
\* first data line is no JSON, or as the plain body
Framings == {"sse", "sse_second", "plain"}

\* the response body that carries an envelope
Body(framing, text) ==
    IF framing = "sse" THEN "event: message\ndata: " \o text \o "\n\n"
    ELSE IF framing = "sse_second" THEN "data: [ping\ndata: " \o text \o "\n\n"
    ELSE text

\* the bodies of the model, and what parse_sse_response makes of each
Bodies == {Body(framing, text) : framing \in Framings, text \in JsonTexts}

Parsed == [content \in Bodies |-> parse_sse_response(content)]

\* a response to a POST: the body of an HTTP response, or no response at all
\* (httpx raises)
TransportError == [kind |-> "transport", framing |-> "", text |-> "", content |-> ""]

HTTPResponse(framing, text) ==
    [kind |-> "body", framing |-> framing, text |-> text, content |-> Body(framing, text)]

\* what a server can answer to `initialize`: a response with an
\* mcp-session-id header, a response without, no response
InitResponses == {"session", "no_header", "transport"}

\* what a server can answer to `tools/list`
ListResponses(server_id) ==
    {TransportError} \cup
    {HTTPResponse(framing, text) :
        framing \in Framings,
        text \in {IF server_id = "synth-mcp" THEN SynthToolsJson ELSE PostgresToolsJson,
                  NamelessToolJson, ListErrorJson, NullJson}}

\* what a server can answer to `tools/call`
CallResponses ==
    {TransportError} \cup
    {HTTPResponse(framing, text) :
        framing \in Framings,
        text \in {OkResultJson, ToolErrorJson, SessionErrorJson, NullJson}}

\* the session id a server hands out for its n-th session of this client
SessionId(server_id, n) == "session-" \o server_id \o "-" \o ToString(n)

\* a POST of the client: the server it went to, the method, the
\* mcp-session-id header and params.name
Post(server_id, method, session_id, name) ==
    [url |-> server_id, method |-> method, session_id |-> session_id, name |-> name]

\* a call that returned normally / that raised the exception exc
Return(value) == [raised |-> FALSE, exc |-> "", value |-> value]
Raise(exc) == [raised |-> TRUE, exc |-> exc, value |-> Nothing]

\* _initialize_session that returns what headers.get gave, id or not
initialize_session_unchecked(server_id, answer, n) ==
    IF answer = "transport" THEN Raise("ConnectError")
    ELSE IF answer = "no_header" THEN Return("None")
    ELSE Return(SessionId(server_id, n))

\* _initialize_session (lines 159-196) given the answer of the server
initialize_session(server_id, answer, n) ==
    IF answer = "transport" THEN Raise("ConnectError")
    ELSE IF answer = "no_header" THEN Raise("No session ID from " \o server_id)
    ELSE Return(SessionId(server_id, n))

\* MCPTool(name, server_id)
MCPTool(name, server_id) ==
    [name |-> name, server_id |-> server_id, full_name |-> full_name_of(server_id, name)]

\* _fetch_tools (lines 198-232) given the answer of the server: the list is
\* built entry by entry and returned whole; t["name"] raises KeyError
fetch_tools(server_id, response) ==
    IF response.kind = "transport" THEN Raise("ConnectError")
    ELSE LET result == Parsed[response.content] IN
         IF result.kind # "dict"
         THEN Raise("'NoneType' object has no attribute 'get'")
         ELSE LET raw_tools == IF "result" \in result.keys /\ result.result.tools # Nothing
                              THEN result.result.tools[1] ELSE <<>>
              IN  IF \E i \in 1..Len(raw_tools) : raw_tools[i].name = Nothing
                  THEN Raise("KeyError: 'name'")
                  ELSE Return([i \in 1..Len(raw_tools) |->
                                  MCPTool(raw_tools[i].name[1], server_id)])

RECURSIVE PutTools(_, _)
\* `for tool in tools: self._tools[tool.full_name] = tool`
PutTools(tools_by_name, tools) ==
    IF tools = <<>> THEN tools_by_name
    ELSE PutTools({t \in tools_by_name : t.full_name # Head(tools).full_name}
                     \cup {Head(tools)},
                  Tail(tools))

\* the named entries of a tools/list answer that stand before its first
\* entry without a name
NamedPrefix(server_id, response) ==
    IF response.kind = "transport" \/ Parsed[response.content].kind # "dict" THEN <<>>
    ELSE LET result == Parsed[response.content]
             raw_tools == IF "result" \in result.keys /\ result.result.tools # Nothing
                          THEN result.result.tools[1] ELSE <<>>
             stop == IF \E i \in 1..Len(raw_tools) : raw_tools[i].name = Nothing
                     THEN (CHOOSE i \in 1..Len(raw_tools) :
                              /\ raw_tools[i].name = Nothing
                              /\ \A j \in 1..(i - 1) : raw_tools[j].name # Nothing) - 1
                     ELSE Len(raw_tools)
         IN  [i \in 1..stop |-> MCPTool(raw_tools[i].name[1], server_id)]

\* a pass of the loop of initialize() that puts every tool into self._tools
\* as soon as its entry is read
ConnectPuttingToolsAsRead(client, server_id, h) ==
    LET session == initialize_session(server_id, h.init, client.issued + 1) IN
    IF session.raised
    THEN [client EXCEPT !.posts = Append(@, Post(server_id, "initialize", Nothing, Nothing))]
    ELSE [client EXCEPT
             !.issued = @ + 1,
             !._sessions[server_id] = Some(session.value),
             !.posts = @ \o <<Post(server_id, "initialize", Nothing, Nothing),
                              Post(server_id, "tools/list", Some(session.value), Nothing)>>,
             !._tools = PutTools(@, NamedPrefix(server_id, h.list))]

\* one pass of `for server_id, server in self.servers.items()` of initialize()
\* (lines 138-149): the session is stored before the tools are fetched; an
\* exception ends the pass and nothing else
Connect(client, server_id, h) ==
    LET session == initialize_session(server_id, h.init, client.issued + 1) IN
    IF session.raised
    THEN [client EXCEPT !.posts = Append(@, Post(server_id, "initialize", Nothing, Nothing))]
    ELSE LET tools == fetch_tools(server_id, h.list) IN
         [client EXCEPT
             !.issued = @ + 1,
             !._sessions[server_id] = Some(session.value),
             !.posts = @ \o <<Post(server_id, "initialize", Nothing, Nothing),
                              Post(server_id, "tools/list", Some(session.value), Nothing)>>,
             !._tools = IF tools.raised THEN @ ELSE PutTools(@, tools.value)]

RECURSIVE ConnectFrom(_, _, _)
\* the passes of the loop of initialize() from server i on
ConnectFrom(client, i, how) ==
    IF i > Len(ServerOrder) THEN client
    ELSE ConnectFrom(Connect(client, ServerOrder[i], how[ServerOrder[i]]), i + 1, how)

\* the value call_tool returns: {"error": error} when has_error, else the
\* JSON value with the text `text`
ErrorResult(error) == [has_error |-> TRUE, error |-> error, text |-> ""]
ToolResult(text) == [has_error |-> FALSE, error |-> "", text |-> text]

\* the latest operation of a client
NoCall ==
    [op |-> "none", full_name |-> "", posts |-> <<>>, outcome |-> Return(Nothing),
     response |-> TransportError]

\* MCPClient.__init__ (lines 118-122)
NewClient ==
    [pc |-> "new",
     _sessions |-> [server_id \in Servers |-> Nothing],
     _tools |-> {},
     issued |-> 0,
     posts |-> <<>>,
     how |-> [server_id \in Servers |-> [init |-> "transport", list |-> TransportError]],
     last |-> NoCall]

\* the answers of a server during the handshake
Handshakes(server_id) ==
    {[init |-> init, list |-> list] :
        init \in InitResponses, list \in ListResponses(server_id)}

\* the client before initialize()
MCPInit == mcp = NewClient

\* no MCPClient
MCPIdle == mcp = [NewClient EXCEPT !.pc = "none"]

\* MCPClient.initialize (lines 133-149).  The tools/list answer of a server
\* that gave no session is never asked for (it is drawn as no response)
Initialize ==
    /\ mcp.pc = "new"
    /\ \E how \in {h \in [Servers -> UNION {Handshakes(sv) : sv \in Servers}] :
                      \A sv \in Servers :
                         /\ h[sv] \in Handshakes(sv)
                         /\ h[sv].init # "session" => h[sv].list = TransportError} :
          LET client == ConnectFrom([mcp EXCEPT !.posts = <<>>], 1, how) IN
          mcp' = [client EXCEPT
                     !.pc = "ready",
                     !.how = how,
                     !.last = [NoCall EXCEPT !.op = "initialize", !.posts = client.posts],
                     !.posts = <<>>]
    /\ UNCHANGED nonMCPVars

\* lines 297-316 without the try statement: what posting the request and
\* reading the response returns or raises
post_tools_call(response) ==
    IF response.kind = "transport" THEN Raise("ConnectError")
    ELSE LET result == Parsed[response.content] IN
         IF result.kind # "dict"
         THEN Raise("argument of type 'NoneType' is not iterable")
         ELSE IF "error" \in result.keys
         THEN Return(Some(ErrorResult(result.error)))
         ELSE IF "result" \in result.keys
         THEN Return(Some(ToolResult(result.result.text)))
         ELSE Return(Some(ToolResult(result.text)))

\* a try statement without `except Exception`
except_nothing(tried) == tried

\* `except Exception as e: return {"error": str(e)}` (lines 314-316)
except_exception(tried) ==
    IF tried.raised THEN Return(Some(ErrorResult(tried.exc))) ELSE tried

\* the full names a caller hands to call_tool: those of the catalog of the
\* model, a tool no server lists, a name without a server prefix
CalledNames ==
    {full_name_of(server_id, name) :
        server_id \in Servers,
        name \in {"search_tables", "list__tables", "execute_query"}}
    \cup {"synth-mcp__drop_table", "get_time"}

\* MCPClient.call_tool (lines 246-316): `init` is what the server answers
\* should the client ask for a session, `response` what it answers to
\* tools/call
CallTool(full_name, init, response) ==
    /\ mcp.pc = "ready"
    /\ init # "session" =>
          \E t \in mcp._tools : t.full_name = full_name /\ mcp._sessions[t.server_id] = Nothing
    /\ LET found == {t \in mcp._tools : t.full_name = full_name}
           call == [NoCall EXCEPT !.op = "call_tool", !.full_name = full_name]
       IN  IF found = {}
           THEN mcp' = [mcp EXCEPT !.last =
                   [call EXCEPT !.outcome =
                       Return(Some(ErrorResult("Unknown tool: " \o full_name)))]]
           ELSE LET tool == CHOOSE t \in found : TRUE IN
                IF tool.server_id \notin Servers
                THEN mcp' = [mcp EXCEPT !.last =
                        [call EXCEPT !.outcome =
                            Return(Some(ErrorResult("Unknown server: " \o tool.server_id)))]]
                ELSE LET stored == mcp._sessions[tool.server_id]
                         session == IF stored = Nothing
                                    THEN initialize_session(tool.server_id, init,
                                                            mcp.issued + 1)
                                    ELSE Return(stored[1])
                         asked == IF stored = Nothing
                                  THEN <<Post(tool.server_id, "initialize", Nothing, Nothing)>>
                                  ELSE <<>>
                     IN  IF session.raised
                         THEN mcp' = [mcp EXCEPT !.last =
                                 [call EXCEPT
                                     !.posts = asked,
                                     !.outcome = Return(Some(ErrorResult(
                                         "Failed to connect to " \o tool.server_id
                                             \o ": " \o session.exc)))]]
                         ELSE mcp' = [mcp EXCEPT
                                 !._sessions[tool.server_id] = Some(session.value),
                                 !.issued = IF stored = Nothing THEN @ + 1 ELSE @,
                                 !.last =
                                     [call EXCEPT
                                         !.posts = Append(asked,
                                             Post(tool.server_id, "tools/call",
                                                  Some(session.value), Some(tool.name))),
                                         !.response = response,
                                         !.outcome =
                                             except_exception(post_tools_call(response))]]
    /\ UNCHANGED nonMCPVars

\* MCPClient.close (lines 151-157)
Close ==
    /\ mcp.pc = "ready"
    /\ mcp' = [mcp EXCEPT
                  !.pc = "closed",
                  !._sessions = [server_id \in Servers |-> Nothing],
                  !._tools = {},
                  !.last = [NoCall EXCEPT !.op = "close"]]
    /\ UNCHANGED nonMCPVars

MCPNext ==
    \/ Initialize
    \/ \E full_name \in CalledNames, init \in InitResponses, response \in CallResponses :
          CallTool(full_name, init, response)
    \/ Close

(***************************************************************************)
(* thread_context.py: get_messages_for_llm on the histories the methods of *)
(* ThreadContext build.                                                    *)
(*                                                                         *)
(* history.context is a ThreadContext extended by add_user_message,        *)
(* add_assistant_message and add_tool_result in the order process_message  *)
(* calls them: an assistant message with tool calls is followed by one     *)
(* tool result per call.  history.pending holds the ids of the calls       *)
(* whose results are still to be added.                                    *)
(***************************************************************************)
\* the id of the k-th tool call of a history
HistoryCallId(k) == "call_" \o ToString(k)

\* the tool calls of one assistant message: n calls numbered from k + 1
HistoryToolCalls(k, n) ==
    [i \in 1..n |-> ToolCall(HistoryCallId(k + i), "postgres-mcp__execute_query",
                             Some(SqlArguments))]

\* a new ThreadContext, as get_or_create returns it
NewHistory ==
    [context |-> ThreadContext("C01:1700000001.000100", USER, <<>>),
     pending |-> <<>>,
     calls |-> 0]

WinInit ==
    /\ history = NewHistory
    /\ llm_messages = Nothing

\* get_messages_for_llm is not looked at
WinIdle ==
    /\ history = NewHistory
    /\ llm_messages = Nothing

\* the history may grow by one message
MayExtend == Len(history.context.messages) < MaxHistory

\* the role of the last message, "" for an empty history
LastRole ==
    IF history.context.messages = <<>> THEN ""
    ELSE history.context.messages[Len(history.context.messages)].role

\* context.add_user_message(user_message)
WinAddUser ==
    /\ MayExtend
    /\ history.pending = <<>>
    /\ LastRole \in {"", "assistant"}
    /\ history' = [history EXCEPT !.context = add_user_message(@, "Count merchants now")]
    /\ UNCHANGED llm_messages
    /\ UNCHANGED nonWinVars

\* context.add_assistant_message(response.content, response.tool_calls)
WinAddAssistantCalls(n) ==
    /\ MayExtend
    /\ history.pending = <<>>
    /\ LastRole \in {"user", "tool"}
    /\ LET tool_calls == HistoryToolCalls(history.calls, n) IN
       history' = [history EXCEPT
            !.context = add_assistant_message(@, Nothing, Some(tool_calls)),
            !.pending = [i \in 1..n |-> tool_calls[i].id],
            !.calls = @ + n]
    /\ UNCHANGED llm_messages
    /\ UNCHANGED nonWinVars

\* context.add_tool_result(tool_id, result_str)
WinAddToolResult ==
    /\ MayExtend
    /\ history.pending # <<>>
    /\ history' = [history EXCEPT
            !.context = add_tool_result(@, Head(history.pending), ToolResultOk),
            !.pending = Tail(@)]
    /\ UNCHANGED llm_messages
    /\ UNCHANGED nonWinVars

\* context.add_assistant_message(final_response)
WinAddAssistantFinal ==
    /\ MayExtend
    /\ history.pending = <<>>
    /\ LastRole \in {"user", "tool"}
    /\ history' = [history EXCEPT
            !.context = add_assistant_message(@, Some("There are 250 merchants."), Nothing)]
    /\ UNCHANGED llm_messages
    /\ UNCHANGED nonWinVars

\* context.get_messages_for_llm(max_messages=max_messages)
WinGetMessages(max_messages) ==
    /\ llm_messages' = Some([max_messages |-> max_messages,
                             messages |-> get_messages_for_llm(history.context,
                                                               max_messages)])
    /\ UNCHANGED history
    /\ UNCHANGED nonWinVars

WinNext ==
    \/ WinAddUser
    \/ \E n \in 1..MaxCallsPerTurn : WinAddAssistantCalls(n)
    \/ WinAddToolResult
    \/ WinAddAssistantFinal
    \/ \E max_messages \in 1..MaxWindow : WinGetMessages(max_messages)

(***************************************************************************)
(* app.py: the event handlers and the except branch of the background      *)
(* task.                                                                   *)
(*                                                                         *)
(* Users send thread messages and reactions, and steps of a task raise, as *)
(* long as env.events and env.faults allow.  A step that raises is one of  *)
(* the awaits of _process_and_respond behind send_thinking_message:        *)
(* get_or_create, context_store.save and update_message.                   *)
(***************************************************************************)
\* context["bot_user_id"]
BOT_USER_ID == "U0BOT"

\* the mention of the bot in a message text
Mention(bot_user_id) == "<@" \o bot_user_id \o ">"

RECURSIVE SubMention(_, _)
\* re.sub(rf"<@{bot_user_id}>\s*", "", text)
SubMention(text, mention) ==
    IF text = ""
    THEN ""
    ELSE IF StartsWith(text, mention)
         THEN SubMention(LStrip(SubSeq(text, Len(mention) + 1, Len(text))), mention)
         ELSE CharAt(text, 1) \o SubMention(Tail(text), mention)

\* extract_message_text
extract_message_text(text, bot_user_id) == Strip(SubMention(text, Mention(bot_user_id)))

\* str.isalnum() on the texts of the model
isalnum(s) ==
    /\ s # ""
    /\ \A i \in 1..Len(s) :
          \E j \in 1..Len(UpperCase \o LowerCase \o "0123456789") :
             CharAt(UpperCase \o LowerCase \o "0123456789", j) = CharAt(s, i)

\* texts of thread messages
MessageTexts == {"list tables", "<@U0BOT> list tables", " why? ", "<@U0BOT> ", ""}

\* message events: bot_id set or not, thread_ts present or not, the text
MessageEvents ==
    [bot_id : BOOLEAN, thread : {Nothing} \cup {Some(k) : k \in ThreadKeys},
     text : MessageTexts]

\* handle_message, lines 293-301: the text left after the mentions is empty,
\* or it is at most four characters that are not all letters and digits
Ignorable(user_message) ==
    \/ user_message = ""
    \/ Len(Strip(user_message)) <= 4 /\ ~isalnum(Strip(user_message))

\* extract_message_text and the two filters on the texts of the model,
\* evaluated once
UserMessage ==
    [text \in MessageTexts |->
        [user_message |-> extract_message_text(text, BOT_USER_ID),
         ignorable |-> Ignorable(extract_message_text(text, BOT_USER_ID))]]

\* handle_message up to create_task: does the event start a task
StartsTask(event) ==
    /\ ~event.bot_id
    /\ event.thread # Nothing
    /\ get(event.thread[1]) # Nothing
    /\ ~UserMessage[event.text].ignorable

\* handle_message
HandleMessage(event) ==
    /\ Receiving
    /\ env.events > 0
    /\ IF StartsTask(event)
       THEN /\ env.tasks > 0
            /\ env' = [env EXCEPT !.events = @ - 1, !.tasks = @ - 1]
            /\ tasks' = Append(tasks,
                               NewTask(event.thread[1],
                                       UserMessage[event.text].user_message))
       ELSE /\ env' = [env EXCEPT !.events = @ - 1]
            /\ tasks' = tasks
    /\ UNCHANGED <<thread_contexts, message_question_map, cache_auto_save, slack>>
    /\ UNCHANGED <<mcpVars, lifeVars, winVars, llmVars, cacheVars>>

\* the reactions the handler acts on
CacheReactions == {"package", "arrows_counterclockwise"}

\* reactions users add
Reactions == CacheReactions \cup {"eyes"}

\* handle_reaction_added on a message that is not in message_question_map, or
\* with another reaction: the handler returns
ReactionIgnored(message_key, reaction) ==
    /\ env.events > 0
    /\ \/ \A entry \in message_question_map : entry.message_key # message_key
       \/ reaction \notin CacheReactions
    /\ env' = [env EXCEPT !.events = @ - 1]
    /\ UNCHANGED <<tasks, thread_contexts, message_question_map, cache_auto_save, slack>>
    /\ UNCHANGED <<mcpVars, lifeVars, winVars, llmVars, cacheVars>>

\* str(e) of what the awaits of the task raise
TaskErrors == {"database is locked", "The request to the Slack API failed."}

\* the text of the except branch (app.py:394-397)
error_text(e) ==
    "Sorry, I encountered an error: " \o e
        \o "\n\nPlease try again or rephrase your question."

\* the positions at which the next await of a task may raise
RaisingSteps == {"start", "returned", "respond"}

\* `except Exception as e` of _process_and_respond with a placeholder posted:
\* update_message(thinking_ts, error_text), which may raise in its turn
ExceptBranch(task, e, update_raises) ==
    [task EXCEPT !.pc = "done", !.raised = Some(e),
                 !.escaped = update_raises,
                 !.placeholder = IF update_raises THEN @ ELSE Append(@, error_text(e))]

\* a step of _process_and_respond raises: send_thinking_message before there is
\* a placeholder, or a later await; the except branch shows the error text on
\* the placeholder, or posts it when there is none
TaskRaises(t, e, before_placeholder, update_raises) ==
    /\ tasks[t].pc \in RaisingSteps
    /\ before_placeholder => tasks[t].pc = "start"
    /\ env.faults > 0
    /\ env' = [env EXCEPT !.faults = @ - 1]
    /\ IF before_placeholder
       THEN /\ tasks' = [tasks EXCEPT ![t].pc = "done", ![t].raised = Some(e),
                                      ![t].escaped = update_raises]
            /\ slack' = IF update_raises THEN slack
                        ELSE [slack EXCEPT
                                !.posted = Append(@, [thread |-> tasks[t].thread_key,
                                                      text |-> error_text(e)])]
       ELSE /\ tasks' = [tasks EXCEPT ![t] =
                  ExceptBranch(IF @.pc = "start"
                               THEN [@ EXCEPT !.placeholder = <<THINKING_TEXT>>]
                               ELSE @,
                               e, update_raises)]
            /\ slack' = slack
    /\ UNCHANGED <<thread_contexts, message_question_map, cache_auto_save>>
    /\ UNCHANGED <<mcpVars, lifeVars, winVars, llmVars, cacheVars>>

DispatchInit ==
    /\ tasks = <<>>
    /\ thread_contexts = [thread_key \in ThreadKeys |-> NoThread]
    /\ message_question_map = {}
    /\ cache_auto_save \in BOOLEAN
    /\ slack = NewSlack
    /\ lifecycle = Started
    /\ env = [tasks |-> MaxTasks, tool_turns |-> MaxDispatchTurns, unusual |-> 0,
              ticks |-> 0, faults |-> MaxFaults, events |-> MaxEvents, non_object |-> 0]

DispatchNext ==
    \/ \E thread_key \in ThreadKeys, question \in AppQuestions :
          HandleMention(thread_key, question)
    \/ \E event \in MessageEvents : HandleMessage(event)
    \/ \E t \in DOMAIN tasks : GetOrCreate(t)
    \/ \E t \in DOMAIN tasks : OpenMCP(t)
    \/ \E t \in DOMAIN tasks : AddUserMessage(t)
    \/ \E t \in DOMAIN tasks : CacheLookup(t)
    \/ \E t \in DOMAIN tasks : LLMRequestsTools(t)
    \/ \E t \in DOMAIN tasks : LLMAnswers(t)
    \/ \E t \in DOMAIN tasks : ExecuteTool(t)
    \/ \E t \in DOMAIN tasks : FinishProcessMessage(t)
    \/ \E t \in DOMAIN tasks : SaveContext(t)
    \/ \E t \in DOMAIN tasks : Respond(t)
    \/ \E t \in DOMAIN tasks, e \in TaskErrors, before_placeholder, update_raises \in BOOLEAN :
          TaskRaises(t, e, before_placeholder, update_raises)
    \/ \E entry \in message_question_map : ReactionPackage(entry)
    \/ \E entry \in message_question_map : ReactionRefresh(entry)
    \/ \E message_key \in 0..Len(tasks), reaction \in Reactions :
          ReactionIgnored(message_key, reaction)

\* QueryCacheStore.cleanup_expired: DELETE ... WHERE created_at < cutoff
cleanup_expired == {row \in cache : ~(row.created_at < now - CACHE_TTL_SECONDS)}

\* a cleanup task that ends on an exception of its cleanup
after_cleanup_error_ends == "ended"

\* `except Exception as e: logger.error(...)`: the `while True` loop goes on
\* with its next sleep
after_cleanup_error == "sleep"

\* one round of a cleanup task: the sleep is over and the cleanup has run or raised
CleanupRound(task, raises) ==
    [pc |-> IF raises THEN after_cleanup_error ELSE "sleep",
     log |-> Append(task.log, IF raises THEN "error" ELSE "cleaned")]

\* `except asyncio.CancelledError: break`
Cancelled(task) == [task EXCEPT !.pc = "ended"]

\* run_cleanup_task: asyncio.sleep(interval_seconds) returns and
\* store.cleanup_old_contexts runs, or raises
RunCleanupTask(raises) ==
    /\ lifecycle.cleanup_task.pc = "sleep"
    /\ Len(lifecycle.cleanup_task.log) < MaxCleanupRuns
    /\ lifecycle' = [lifecycle EXCEPT !.cleanup_task = CleanupRound(@, raises)]
    /\ thread_contexts' = IF raises THEN thread_contexts
                          ELSE cleanup_old_contexts(DEFAULT_CONTEXT_TTL_SECONDS)
    /\ UNCHANGED <<tasks, message_question_map, cache_auto_save, env, slack>>
    /\ UNCHANGED <<mcpVars, winVars, llmVars, cacheVars>>

\* run_cache_cleanup_task: asyncio.sleep(interval_seconds) returns and
\* cache.cleanup_expired runs, or raises
RunCacheCleanupTask(raises) ==
    /\ lifecycle.cache_cleanup_task.pc = "sleep"
    /\ Len(lifecycle.cache_cleanup_task.log) < MaxCleanupRuns
    /\ lifecycle' = [lifecycle EXCEPT !.cache_cleanup_task = CleanupRound(@, raises)]
    /\ cache' = IF raises THEN cache ELSE cleanup_expired
    /\ UNCHANGED <<next_rowid, cache_enabled, now, fm>>
    /\ UNCHANGED <<appVars, mcpVars, winVars, llmVars>>

\* shutdown(), lines 136-149: both cleanup tasks are cancelled and awaited
ShutdownCancelsCleanup ==
    /\ lifecycle.pc = "running"
    /\ lifecycle' = [pc |-> "cleanup_cancelled",
                     cleanup_task |-> Cancelled(lifecycle.cleanup_task),
                     cache_cleanup_task |-> Cancelled(lifecycle.cache_cleanup_task)]
    /\ UNCHANGED <<appVars, mcpVars, winVars, llmVars, cacheVars>>

\* shutdown(), lines 151-153: `await cache_store.close()`
ShutdownClosesCache ==
    /\ lifecycle.pc = "cleanup_cancelled"
    /\ lifecycle' = [lifecycle EXCEPT !.pc = "cache_closed"]
    /\ UNCHANGED <<appVars, mcpVars, winVars, llmVars, cacheVars>>

\* shutdown(), lines 155-156: `await context_store.close()`
ShutdownClosesContext ==
    /\ lifecycle.pc = "cache_closed"
    /\ lifecycle' = [lifecycle EXCEPT !.pc = "stores_closed"]
    /\ UNCHANGED <<appVars, mcpVars, winVars, llmVars, cacheVars>>

\* asyncio.run(main()) once main() has returned: the tasks that still run are
\* cancelled and the event loop is closed
Teardown ==
    /\ lifecycle.pc = "stores_closed"
    /\ lifecycle' = [lifecycle EXCEPT !.pc = "stopped"]
    /\ tasks' = [t \in DOMAIN tasks |->
                    IF tasks[t].pc = "done" THEN tasks[t]
                    ELSE [tasks[t] EXCEPT !.pc = "cancelled"]]
    /\ UNCHANGED <<thread_contexts, message_question_map, cache_auto_save, env, slack>>
    /\ UNCHANGED <<mcpVars, winVars, llmVars, cacheVars>>

\* str(e) of a store operation on a closed connection
StoreClosedErrors == {"no active connection", "'NoneType' object has no attribute 'execute'"}

\* the next store operation of the task is asked of a store that is closed
OnClosedStore(task) ==
    \/ task.pc \in {"start", "returned"} /\ ~ContextStoreOpen
    \/ task.pc = "lookup" /\ cache_enabled /\ ~CacheStoreOpen
    \/ /\ task.pc = "finished"
       /\ cache_auto_save /\ cache_enabled /\ task.result.error = Nothing
       /\ ~CacheStoreOpen

\* _process_and_respond: a store operation on a closed store raises and the
\* except branch shows the error text on the placeholder
StoreClosedRaises(t, e, update_raises) ==
    /\ OnClosedStore(tasks[t])
    /\ tasks' = [tasks EXCEPT ![t] =
          ExceptBranch(IF @.pc = "start"
                       THEN [@ EXCEPT !.placeholder = <<THINKING_TEXT>>]
                       ELSE @,
                       e, update_raises)]
    /\ UNCHANGED <<thread_contexts, message_question_map, cache_auto_save, env, slack>>
    /\ UNCHANGED <<mcpVars, lifeVars, winVars, llmVars, cacheVars>>

\* the application from startup() to the end of asyncio.run(main())
LifecycleInit ==
    /\ tasks = <<>>
    /\ thread_contexts = [thread_key \in ThreadKeys |-> NoThread]
    /\ message_question_map = {}
    /\ cache_auto_save \in BOOLEAN
    /\ slack = NewSlack
    /\ lifecycle = Started
    /\ env = [tasks |-> 1, tool_turns |-> MaxShutdownTurns, unusual |-> 0,
              ticks |-> MaxTicks, faults |-> 0, events |-> 0, non_object |-> 0]

LifecycleNext ==
    \/ \E thread_key \in ThreadKeys, question \in AppQuestions :
          HandleMention(thread_key, question)
    \/ \E t \in DOMAIN tasks : GetOrCreate(t)
    \/ \E t \in DOMAIN tasks : OpenMCP(t)
    \/ \E t \in DOMAIN tasks : AddUserMessage(t)
    \/ \E t \in DOMAIN tasks : CacheLookup(t)
    \/ \E t \in DOMAIN tasks : LLMRequestsTools(t)
    \/ \E t \in DOMAIN tasks : LLMAnswers(t)
    \/ \E t \in DOMAIN tasks : ExecuteTool(t)
    \/ \E t \in DOMAIN tasks : FinishProcessMessage(t)
    \/ \E t \in DOMAIN tasks : SaveContext(t)
    \/ \E t \in DOMAIN tasks : Respond(t)
    \/ \E t \in DOMAIN tasks, e \in StoreClosedErrors, update_raises \in BOOLEAN :
          StoreClosedRaises(t, e, update_raises)
    \/ \E raises \in BOOLEAN : RunCleanupTask(raises)
    \/ \E raises \in BOOLEAN : RunCacheCleanupTask(raises)
    \/ TimePasses
    \/ ShutdownCancelsCleanup
    \/ ShutdownClosesCache
    \/ ShutdownClosesContext
    \/ Teardown

\* the text of a message that mentions the bot
THREAD_MENTION_TEXT == "<@U0BOT> list tables"

\* the ts of the user message posted when the environment may post n more
MessageTs(n) == "1700000009.00090" \o ToString(n)

\* Slack's events for one user message in a thread that mentions the bot: an
\* app_mention event and a message event with the ts and the text of the message
SlackEventsOf(thread_key, ts) ==
    {[type |-> type, ts |-> ts, thread |-> thread_key, text |-> THREAD_MENTION_TEXT] :
        type \in {"app_mention", "message"}}

\* a user posts a message that mentions the bot in a thread; the app is
\* subscribed to app_mention and to message events
PostThreadMention(thread_key) ==
    /\ Receiving
    /\ env.events > 0
    /\ env' = [env EXCEPT !.events = @ - 1]
    /\ slack' = [slack EXCEPT !.pending = @ \cup SlackEventsOf(thread_key, MessageTs(env.events))]
    /\ UNCHANGED <<tasks, thread_contexts, message_question_map, cache_auto_save>>
    /\ UNCHANGED <<mcpVars, lifeVars, winVars, llmVars, cacheVars>>

\* the task a handler creates for an event
TaskOf(event) ==
    [NewTask(event.thread, UserMessage[event.text].user_message)
        EXCEPT !.event = Some([type |-> event.type, ts |-> event.ts])]

\* handle_mention on the app_mention event of a posted message
DeliverAppMention(event) ==
    /\ event \in slack.pending
    /\ event.type = "app_mention"
    /\ slack' = [slack EXCEPT !.pending = @ \ {event}]
    /\ IF UserMessage[event.text].user_message # ""
       THEN /\ env.tasks > 0
            /\ env' = [env EXCEPT !.tasks = @ - 1]
            /\ tasks' = Append(tasks, TaskOf(event))
       ELSE UNCHANGED <<tasks, env>>
    /\ UNCHANGED <<thread_contexts, message_question_map, cache_auto_save>>
    /\ UNCHANGED <<mcpVars, lifeVars, winVars, llmVars, cacheVars>>

\* handle_message on the message event of a posted message
DeliverMessage(event) ==
    /\ event \in slack.pending
    /\ event.type = "message"
    /\ slack' = [slack EXCEPT !.pending = @ \ {event}]
    /\ IF StartsTask([bot_id |-> FALSE, thread |-> Some(event.thread), text |-> event.text])
       THEN /\ env.tasks > 0
            /\ env' = [env EXCEPT !.tasks = @ - 1]
            /\ tasks' = Append(tasks, TaskOf(event))
       ELSE UNCHANGED <<tasks, env>>
    /\ UNCHANGED <<thread_contexts, message_question_map, cache_auto_save>>
    /\ UNCHANGED <<mcpVars, lifeVars, winVars, llmVars, cacheVars>>

\* a conversation stored by an earlier task: a question and its answer
StoredConversation(thread_key) ==
    LET context == add_assistant_message(
                       add_user_message(ThreadContext(thread_key, USER, <<>>),
                                        "Count merchants now"),
                       Some("There are 250 merchants."), Nothing)
    IN  [NewThreadRow(thread_key, USER) EXCEPT
            !.messages = JsonDumps([i \in 1..Len(context.messages) |->
                                      to_dict(context.messages[i])])]

\* the application started on a database that holds the conversation of one thread
ThreadMentionInit ==
    /\ tasks = <<>>
    /\ \E stored \in ThreadKeys :
          thread_contexts = [thread_key \in ThreadKeys |->
                                IF thread_key = stored THEN StoredConversation(thread_key)
                                ELSE NoThread]
    /\ message_question_map = {}
    /\ cache_auto_save \in BOOLEAN
    /\ slack = NewSlack
    /\ lifecycle = Started
    /\ env = [tasks |-> MaxTasks, tool_turns |-> MaxThreadTurns, unusual |-> MaxUnusual,
              ticks |-> 0, faults |-> 0, events |-> MaxEvents, non_object |-> 0]

ThreadMentionNext ==
    \/ \E thread_key \in ThreadKeys : PostThreadMention(thread_key)
    \/ \E event \in slack.pending : DeliverAppMention(event)
    \/ \E event \in slack.pending : DeliverMessage(event)
    \/ \E t \in DOMAIN tasks : GetOrCreate(t)
    \/ \E t \in DOMAIN tasks : OpenMCP(t)
    \/ \E t \in DOMAIN tasks : AddUserMessage(t)
    \/ \E t \in DOMAIN tasks : CacheLookup(t)
    \/ \E t \in DOMAIN tasks : LLMRequestsTools(t)
    \/ \E t \in DOMAIN tasks : LLMAnswers(t)
    \/ \E t \in DOMAIN tasks : ExecuteTool(t)
    \/ \E t \in DOMAIN tasks : FinishProcessMessage(t)
    \/ \E t \in DOMAIN tasks : SaveContext(t)
    \/ \E t \in DOMAIN tasks : Respond(t)

\* one message whose tool calls may carry arguments of any JSON kind
ArgumentsInit ==
    /\ tasks = <<>>
    /\ thread_contexts = [thread_key \in ThreadKeys |-> NoThread]
    /\ message_question_map = {}
    /\ cache_auto_save \in BOOLEAN
    /\ slack = NewSlack
    /\ lifecycle = Started
    /\ env = [tasks |-> 1, tool_turns |-> MaxArgumentTurns, unusual |-> MaxUnusual,
              ticks |-> 0, faults |-> 0, events |-> 0, non_object |-> MaxNonObject]

ArgumentsNext ==
    \/ \E thread_key \in ThreadKeys, question \in AppQuestions :
          HandleMention(thread_key, question)
    \/ \E t \in DOMAIN tasks : GetOrCreate(t)
    \/ \E t \in DOMAIN tasks : OpenMCP(t)
    \/ \E t \in DOMAIN tasks : AddUserMessage(t)
    \/ \E t \in DOMAIN tasks : CacheLookup(t)
    \/ \E t \in DOMAIN tasks : LLMRequestsTools(t)
    \/ \E t \in DOMAIN tasks : LLMAnswers(t)
    \/ \E t \in DOMAIN tasks : ExecuteTool(t)
    \/ \E t \in DOMAIN tasks : FinishProcessMessage(t)
    \/ \E t \in DOMAIN tasks : SaveContext(t)
    \/ \E t \in DOMAIN tasks : Respond(t)

(***************************************************************************)
(* Specifications.                                                         *)
(***************************************************************************)
\* call_with_fallback alone
InitLLM == LLMInit /\ CacheIdle /\ AppIdle /\ WinIdle /\ MCPIdle

SpecLLM == InitLLM /\ [][LLMNext]_vars

\* the cache store alone
InitCache == CacheInit /\ LLMIdle /\ AppIdle /\ WinIdle /\ MCPIdle

SpecCache == InitCache /\ [][CacheNext]_vars

\* the cache store asked short questions
SpecShort == InitCache /\ [][ShortNext]_vars

\* the dispatcher, its tasks and the stores
Init == AppInit /\ LLMIdle /\ CacheIdle /\ WinIdle /\ MCPIdle

Spec == Init /\ [][Next]_vars

\* get_messages_for_llm alone
InitWindow == WinInit /\ LLMIdle /\ CacheIdle /\ AppIdle /\ MCPIdle

SpecWindow == InitWindow /\ [][WinNext]_vars

\* one MCPClient from its construction to its close
InitMCP == MCPInit /\ LLMIdle /\ CacheIdle /\ AppIdle /\ WinIdle

SpecMCP == InitMCP /\ [][MCPNext]_vars

\* the event handlers of app.py with the tasks they start
InitDispatch == DispatchInit /\ LLMIdle /\ CacheIdle /\ WinIdle /\ MCPIdle

SpecDispatch == InitDispatch /\ [][DispatchNext]_vars

\* one message and the argument texts of its tool calls
InitArguments == ArgumentsInit /\ LLMIdle /\ CacheIdle /\ WinIdle /\ MCPIdle

SpecArguments == InitArguments /\ [][ArgumentsNext]_vars

\* a mention posted in a thread whose conversation is stored
InitThreadMention == CacheIdle /\ ThreadMentionInit /\ LLMIdle /\ WinIdle /\ MCPIdle

SpecThreadMention == InitThreadMention /\ [][ThreadMentionNext]_vars

\* startup, the cleanup tasks, shutdown and the tasks in flight
InitLifecycle == LifecycleInit /\ LLMIdle /\ CacheIdle /\ WinIdle /\ MCPIdle

SpecLifecycle == InitLifecycle /\ [][LifecycleNext]_vars

(***************************************************************************)
(* Reading the trace of a call.                                            *)
(***************************************************************************)
EventsOf(op) == {i \in 1..Len(trace) : trace[i].op = op}

PrimaryFailures == {i \in EventsOf("primary") : trace[i].error # NoError}

\* the error of the last failed primary attempt of the trace
LastPrimaryError ==
    LET last == CHOOSE i \in PrimaryFailures : \A j \in PrimaryFailures : j <= i
    IN  trace[last].error

LLMDone == lpc \in {"returned", "raised"}

\* the back-off the policy prescribes after attempt a
PolicyDelay(a) == IF 2 ^ (a - 1) < 10 THEN 2 ^ (a - 1) ELSE 10

(***************************************************************************)
(* C5.  When a primary attempt fails with a credits/quota error (402 or    *)
(* a message with a credit indicator), nothing but at most one fallback    *)
(* call follows it: no sleep, no further primary attempt.                  *)
(***************************************************************************)
C5_CreditsErrorCutsToFallback ==
    \A i \in PrimaryFailures :
        is_credits_error(trace[i].error) =>
            /\ \A j \in (i + 1)..Len(trace) : trace[j].op = "fallback"
            /\ Cardinality(EventsOf("fallback")) <= 1
            /\ lpc \notin {"sleep", "primary"}

\* a credits error that also carries a retryable status (503) went straight to
\* a successful fallback call
C5_Witness ==
    /\ lpc = "returned"
    /\ Len(trace) = 2
    /\ trace[1].op = "primary"
    /\ trace[1].error.name = "quota_on_503"
    /\ trace[2].op = "fallback"
    /\ max_retries > 1

(***************************************************************************)
(* C6.  With the default max_retries = 2 a call invokes the primary        *)
(* back-end at most twice and the fallback back-end at most once.          *)
(***************************************************************************)
C6_AtMostTwoPrimaryOneFallback ==
    max_retries = 2 =>
        /\ Cardinality(EventsOf("primary")) <= 2
        /\ Cardinality(EventsOf("fallback")) <= 1

\* both primary attempts and the fallback were used
C6_Witness ==
    /\ max_retries = 2
    /\ LLMDone
    /\ Cardinality(EventsOf("primary")) = 2
    /\ Cardinality(EventsOf("fallback")) = 1

C8_BothFailedRaisesAggregate ==
    \A i \in EventsOf("fallback") :
        (trace[i].error # NoError /\ PrimaryFailures # {}) =>
            /\ lpc = "raised"
            /\ outcome.kind = "raised_both"
            /\ outcome.primary = LastPrimaryError
            /\ outcome.fallback = trace[i].error
            /\ EventsOf("fallback") = {i}

\* two different errors, both cited
C8_Witness ==
    /\ lpc = "raised"
    /\ outcome.kind = "raised_both"
    /\ outcome.primary.name = "timeout"
    /\ outcome.fallback.name = "unauthorized"
    /\ Cardinality(PrimaryFailures) > 1

(***************************************************************************)
(* C9.  A primary attempt a < max_retries that fails with a retryable,     *)
(* non-credits error is followed by a sleep of min(2^(a-1), 10) seconds    *)
(* and then by attempt a + 1; every sleep stands between two primary       *)
(* attempts.                                                               *)
(***************************************************************************)
C9_BackoffBetweenAttempts ==
    /\ \A i \in PrimaryFailures :
          LET e == trace[i].error
              a == trace[i].attempt
          IN  (is_retryable_error(e) /\ ~is_credits_error(e) /\ a < max_retries) =>
                 /\ a = i \div 2 + 1
                 /\ IF i = Len(trace)
                    THEN lpc = "sleep" /\ attempt = a
                    ELSE trace[i + 1] = SleepEvent(a, PolicyDelay(a))
    /\ \A j \in EventsOf("sleep") :
          /\ j > 1
          /\ trace[j - 1].op = "primary"
          /\ trace[j - 1].error # NoError
          /\ IF j = Len(trace)
             THEN lpc = "primary" /\ attempt = trace[j - 1].attempt + 1
             ELSE /\ trace[j + 1].op = "primary"
                  /\ trace[j + 1].attempt = trace[j - 1].attempt + 1

\* the capped back-off: attempt 5 failed, the call slept 10 s (not 16) and made
\* attempt 6
C9_Witness ==
    /\ Len(trace) >= 11
    /\ trace[9].op = "primary"
    /\ trace[9].attempt = 5
    /\ trace[10] = SleepEvent(5, 10)
    /\ trace[11].op = "primary"
    /\ trace[11].attempt = 6

(***************************************************************************)
(* C10.  With the fallback switched off or without a fallback credential   *)
(* the fallback back-end is never called: a call whose primary failed      *)
(* raises the last primary error, and a call without a configured primary  *)
(* raises the no-provider error.                                           *)
(***************************************************************************)
C10_NoFallbackWhenDisabled ==
    (~config.fallback_enabled \/ ~config.fallback_available) =>
        /\ EventsOf("fallback") = {}
        /\ lpc # "fallback"
        /\ (LLMDone /\ PrimaryFailures # {} /\ trace[Len(trace)].error # NoError) =>
              /\ lpc = "raised"
              /\ outcome = RaisedLast(LastPrimaryError)
        /\ (lpc # "start" /\ ~config.primary_available) =>
              /\ lpc = "raised"
              /\ outcome = RaisedNoProvider
              /\ trace = <<>>

\* the switch is off although a fallback credential is configured, and the call
\* raised the error of the second primary attempt
C10_Witness ==
    /\ ~config.fallback_enabled
    /\ config.fallback_available
    /\ lpc = "raised"
    /\ Len(trace) = 3
    /\ trace[1].error.name = "timeout"
    /\ outcome = RaisedLast(trace[3].error)
    /\ trace[3].error.name = "server_error"

(***************************************************************************)
(* Claims about the cache store.                                           *)
(***************************************************************************)
\* C3: whatever operations of the store have run (save, find_match, delete,
\* delete_by_question, clear, cleanup_expired), and wherever a find_match in
\* flight stands, every row of query_cache has hit_count >= 0, and its
\* last_hit_at is non-null exactly when its hit_count is positive.
C3_HitBookkeeping ==
    \A row \in cache :
        /\ row.hit_count >= 0
        /\ (row.last_hit_at # NULL) <=> (row.hit_count > 0)

\* C3 witness: find_match returned a row and recorded the hit, a later save of
\* the same question reset that row, and another row still carries its hits.
C3_Witness ==
    /\ fm.pc = "returned"
    /\ fm.cached # NoRow
    /\ \E row \in cache :
          /\ row.id = fm.cached.id
          /\ row.hit_count = 0
          /\ row.last_hit_at = NULL
    /\ \E row \in cache : row.hit_count > 0 /\ row.last_hit_at # NULL

(***************************************************************************)
(* Claims about the agentic loop and the dispatcher.                       *)
(***************************************************************************)
\* C1: whatever the LLM and the tools do (answers, tool calls, LLM errors,
\* tool errors), a run of process_message makes at most MAX_ITERATIONS = 10
\* loop iterations and at most 10 calls of the LLM provider, and the
\* iterations field of the result it returns is at most 10.
C1_AtMostMaxIterations ==
    \A t \in DOMAIN tasks :
        /\ tasks[t].iteration <= MAX_ITERATIONS
        /\ tasks[t].llm_calls <= MAX_ITERATIONS
        /\ tasks[t].result # NoResult => tasks[t].result.iterations <= MAX_ITERATIONS

\* C1 witness: a run that asked for tools in each of its 10 iterations has
\* returned the maximum-iterations text after 10 LLM calls.
C1_Witness ==
    \E t \in DOMAIN tasks :
        /\ tasks[t].pc = "done"
        /\ tasks[t].result.response_text = MAX_ITERATIONS_TEXT
        /\ tasks[t].result.iterations = MAX_ITERATIONS
        /\ tasks[t].llm_calls = MAX_ITERATIONS

\* the messages of the row stored under a thread key
PersistedMessages(thread_key) == JsonLoads(thread_contexts[thread_key].messages)

\* the ids of the tool calls of a persisted message
ToolCallIds(m) ==
    IF m.tool_calls = Nothing THEN {}
    ELSE {m.tool_calls[1][k].id : k \in 1..Len(m.tool_calls[1])}

\* C2: in every row of thread_contexts, each message with role "tool" has a
\* tool_call_id, and that id is the id of a tool call of an assistant message
\* earlier in the same message list.
C2_ToolResultsReferToEarlierCalls ==
    \A thread_key \in ThreadKeys :
        thread_contexts[thread_key] # NoThread =>
            LET msgs == PersistedMessages(thread_key) IN
            \A i \in 1..Len(msgs) :
                msgs[i].role = "tool" =>
                    /\ msgs[i].tool_call_id # Nothing
                    /\ \E j \in 1..(i - 1) :
                          /\ msgs[j].role = "assistant"
                          /\ msgs[i].tool_call_id[1] \in ToolCallIds(msgs[j])

\* C2 witness: a persisted thread holds two runs (two user messages), and in it
\* an assistant message with two tool calls followed by both tool results.
C2_Witness ==
    \E thread_key \in ThreadKeys :
        /\ thread_contexts[thread_key] # NoThread
        /\ LET msgs == PersistedMessages(thread_key) IN
           /\ Cardinality({i \in 1..Len(msgs) : msgs[i].role = "user"}) >= 2
           /\ \E j \in 1..Len(msgs) :
                 /\ msgs[j].role = "assistant"
                 /\ Cardinality(ToolCallIds(msgs[j])) = 2
                 /\ j + 2 <= Len(msgs)
                 /\ msgs[j + 1].role = "tool"
                 /\ msgs[j + 2].role = "tool"

\* C4, as claimed: a task whose result has from_cache = true carries the
\* tools_used and sql_queries of the cache entry that matched, and made no LLM
\* provider call and posted no MCP request while handling its message.
C4_CacheHitMakesNoCalls ==
    \A t \in DOMAIN tasks :
        tasks[t].result.from_cache =>
            /\ tasks[t].result.tools_used = tasks[t].hit.tools_used
            /\ tasks[t].result.sql_queries = tasks[t].hit.sql_queries
            /\ tasks[t].llm_calls = 0
            /\ tasks[t].mcp_requests = 0

(***************************************************************************)
(* Claims about find_match and save.                                       *)
(***************************************************************************)
\* a row of the table is older than the TTL at time `now`
RowExpired(row) == now - row.created_at > CACHE_TTL_SECONDS

\* one step of a find_match call takes `cached` as its hit
TakesHit == fm.pc # "hit" /\ fm'.pc = "hit"

\* C11: in every step of a find_match call and whatever the other operations
\* and the clock did before it: the entry a tier takes as the hit is a row of
\* the table that is not expired when the tier reads it (now - created_at is at
\* most the TTL), and nothing else is ever returned; the hash tier is tried
\* first, the exact-normalized tier only after the hash tier found no
\* unexpired row, and the fuzzy tier only after the exact tier found none.
C11_NeverReturnsExpired ==
    [][ /\ TakesHit =>
              /\ \E row \in cache : fm'.cached = row_to_cached(row) /\ ~RowExpired(row)
              /\ now - fm'.cached.created_at <= CACHE_TTL_SECONDS
              /\ fm'.tier = 1 <=> fm.pc = "tier1"
              /\ fm'.tier = 2 <=> fm.pc = "tier2"
              /\ fm'.tier = 3 <=> fm.pc = "tier3"
              /\ fm'.tier = 1 =>
                    fm'.cached.question_hash = HashOf[fm.question]
              /\ fm'.tier = 2 =>
                    fm'.cached.question_normalized = Normalized[fm.question]
        /\ (fm.pc = "tier1" /\ fm'.pc = "tier2") =>
              ~\E row \in cache :
                  /\ row.question_hash = HashOf[fm.question]
                  /\ ~RowExpired(row)
        /\ (fm.pc = "tier2" /\ fm'.pc \notin {"tier2", "hit"}) =>
              /\ fm'.pc = "tier3"
              /\ \/ ~\E row \in cache : row.question_normalized = Normalized[fm.question]
                 \/ \E row \in cache :
                       /\ row.question_normalized = Normalized[fm.question]
                       /\ RowExpired(row)
        /\ fm'.pc = "tier3" => fm.pc \in {"tier2", "tier3"}
        /\ fm'.pc = "tier2" => fm.pc \in {"tier1", "tier2"}
        /\ (fm'.pc = "returned" /\ fm'.cached # NoRow /\ fm' # fm) =>
              /\ fm.pc = "hit"
              /\ fm'.cached = fm.cached
              /\ fm'.tier = fm.tier
      ]_vars

\* C11 witness: find_match returned an unexpired entry from the fuzzy tier
\* while the table holds an expired row with the hash of the question asked.
C11_Witness ==
    /\ fm.pc = "returned"
    /\ fm.cached # NoRow
    /\ fm.tier = 3
    /\ now - fm.cached.created_at <= CACHE_TTL_SECONDS
    /\ \E row \in cache :
          /\ row.question_hash = HashOf[fm.question]
          /\ RowExpired(row)

\* the step is a call save(q, payload) of an enabled store
IsSave(q, payload) ==
    /\ cache_enabled
    /\ cache' = SavedCache(q, StoredPayload(payload))
    /\ UNCHANGED <<cache_enabled, now>>

\* C12, as claimed: with the cache enabled, the find_match(q) that runs right
\* after save(q, payload) returns an entry (not None) whose response_text,
\* tools_used, sql_queries and progress_events are those of the payload saved
\* (progress_events None being saved as the empty list), and whose hit_count
\* is 1 and whose last_hit_at is set.
C12_SaveThenFindReturnsPayloadWithHit ==
    [][ \A q \in Questions, payload \in Payloads :
            IsSave(q, payload) =>
                \A cached \in find_match(q)' :
                    /\ cached # NoRow
                    /\ cached.response_text = payload.response_text
                    /\ cached.tools_used = payload.tools_used
                    /\ cached.sql_queries = payload.sql_queries
                    /\ cached.progress_events = OrEmpty(payload.progress_events)
                    /\ cached.hit_count = 1
                    /\ cached.last_hit_at # NULL
      ]_vars

\* the payload a row of the table stores
PayloadOf(row) ==
    [response_text |-> row.response_text,
     tools_used |-> JsonLoads(row.tools_used),
     sql_queries |-> JsonLoads(row.sql_queries),
     progress_events |-> JsonLoads(row.progress_events)]

\* C13: after every step the table holds at most one row per question_hash;
\* and a save(q, payload) of an enabled store whose hash is already in the
\* table adds no row and leaves, under that hash, the row with the same id
\* holding the new question text and payload, hit_count = 0 and last_hit_at
\* NULL, whatever hits the row had before.
C13_SaveIsUpsertByHash ==
    [][ /\ \A r1 \in cache', r2 \in cache' :
              r1.question_hash = r2.question_hash => r1 = r2
        /\ \A q \in Questions, payload \in Payloads :
              (/\ cache_enabled
               /\ UNCHANGED <<fm, now, next_rowid>>
               /\ \E row \in cache : row.question_hash = HashOf[q]
               /\ Save(q, payload)) =>
                  /\ Cardinality(cache') = Cardinality(cache)
                  /\ \A old \in cache :
                        old.question_hash # HashOf[q] => old \in cache'
                  /\ \E old \in cache, new \in cache' :
                        /\ old.question_hash = HashOf[q]
                        /\ new.question_hash = old.question_hash
                        /\ new.id = old.id
                        /\ new.question_text = q
                        /\ PayloadOf(new) = StoredPayload(payload)
                        /\ new.hit_count = 0
                        /\ new.last_hit_at = NULL
      ]_vars

\* C13 witness: find_match returned a row (and recorded the hit), and a later
\* save under the same hash replaced the payload of that row and reset its
\* hit_count and last_hit_at, while the table holds a second row.
C13_Witness ==
    /\ fm.pc = "returned"
    /\ fm.cached # NoRow
    /\ Cardinality(cache) = 2
    /\ \E row \in cache :
          /\ row.id = fm.cached.id
          /\ row.question_hash = fm.cached.question_hash
          /\ row.response_text # fm.cached.response_text
          /\ row.question_text # fm.cached.question_text
          /\ row.hit_count = 0
          /\ row.last_hit_at = NULL

(***************************************************************************)
(* Claims about the agent loop and the query cache.                        *)
(***************************************************************************)
\* the positions of a task inside process_message
InProcessMessage == {"entry", "lookup", "loop", "tools", "finished"}

\* what the table stores as answers: hit bookkeeping left aside
Answers(table) ==
    {[id |-> row.id, question_text |-> row.question_text, payload |-> PayloadOf(row)] :
        row \in table}

\* what save is handed for a ProcessingResult
ResultPayload(result) ==
    [response_text |-> result.response_text,
     tools_used |-> result.tools_used,
     sql_queries |-> result.sql_queries,
     progress_events |-> result.progress_events]

C15_SaveThenGetReturnsMessages ==
    [][ \A t \in DOMAIN tasks :
            (tasks[t].pc = "returned" /\ tasks'[t].pc = "respond") =>
                /\ get(tasks[t].thread_key)' # Nothing
                /\ get(tasks[t].thread_key)'[1].messages = tasks[t].context.messages
      ]_vars

\* C16, as claimed: in the list get_messages_for_llm(max_messages) returns, for
\* any history the ThreadContext methods build and any max_messages, every
\* message with role "tool" comes after an assistant message of the same list
\* whose tool_calls hold its tool_call_id.
C16_WindowKeepsToolPairs ==
    llm_messages # Nothing =>
        LET msgs == llm_messages[1].messages IN
        \A i \in 1..Len(msgs) :
            msgs[i].role = "tool" =>
                /\ msgs[i].tool_call_id # Nothing
                /\ \E j \in 1..(i - 1) :
                      /\ msgs[j].role = "assistant"
                      /\ msgs[i].tool_call_id[1] \in ToolCallIds(msgs[j])

\* the messages a task appended to its context, as save writes them
Appended(t) ==
    [i \in 1..(Len(tasks[t].context.messages) - tasks[t].loaded) |->
        to_dict(tasks[t].context.messages[tasks[t].loaded + i])]

\* block occurs in seq as a run of consecutive elements
IsBlockOf(block, seq) ==
    \E off \in 0..(Len(seq) - Len(block)) :
        SubSeq(seq, off + 1, off + Len(block)) = block

\* both tasks have called save
BothSaved(t1, t2) ==
    /\ tasks[t1].pc \in {"respond", "done"}
    /\ tasks[t2].pc \in {"respond", "done"}

\* C17, as claimed: when two tasks of the same thread overlap (the second did
\* its get_or_create before the first saved) and both have called save, the
\* message list stored for the thread holds the messages appended by the
\* first task and the messages appended by the second.
C17_OverlappingTasksKeepMessages ==
    \A t1 \in DOMAIN tasks, t2 \in DOMAIN tasks :
        (/\ t1 # t2
         /\ tasks[t1].thread_key = tasks[t2].thread_key
         /\ t1 \in tasks[t2].overlaps
         /\ BothSaved(t1, t2)
         /\ thread_contexts[tasks[t1].thread_key] # NoThread) =>
            /\ IsBlockOf(Appended(t1), PersistedMessages(tasks[t1].thread_key))
            /\ IsBlockOf(Appended(t2), PersistedMessages(tasks[t2].thread_key))


(***************************************************************************)
(* C18: within one model turn the tool calls are worked on one at a time   *)
(* in the order the model emitted them.                                    *)
(***************************************************************************)

\* the index in the message list of task t of the assistant message that
\* carries the tool calls of the current turn
TurnStart(t) ==
    CHOOSE j \in 1..Len(tasks[t].messages) :
       /\ tasks[t].messages[j].tool_calls # Nothing
       /\ \A k \in (j + 1)..Len(tasks[t].messages) : tasks[t].messages[k].tool_calls = Nothing

\* the tool calls of the current turn of task t, as the model emitted them
TurnCalls(t) == tasks[t].messages[TurnStart(t)].tool_calls[1]

\* the number of tool messages appended in the current turn of task t
TurnDone(t) == Len(tasks[t].messages) - TurnStart(t)

\* C18: while a task stands inside the `for` loop of a turn, the calls made so
\* far are exactly the first calls of the turn in the order the model emitted
\* them, every one of them has returned and has its tool message (with its
\* own id) appended, and the calls not made yet are the rest of the turn in
\* order: call i+1 starts only after call i has returned and its message is
\* appended
C18_ToolCallsOneAtATimeInOrder ==
    \A t \in DOMAIN tasks :
       tasks[t].pc = "tools" =>
          LET msgs == tasks[t].messages
              j == TurnStart(t)
              calls == TurnCalls(t)
              done == TurnDone(t)
              completed == tasks[t].tools_completed
          IN  /\ done < Len(calls)
              /\ tasks[t].pending = SubSeq(calls, done + 1, Len(calls))
              /\ Len(completed) >= done
              /\ \A i \in 1..done :
                    /\ msgs[j + i].role = "tool"
                    /\ msgs[j + i].tool_call_id = Some(calls[i].id)
                    /\ completed[Len(completed) - done + i].status = "complete"
                    /\ completed[Len(completed) - done + i].tool =
                          parse_tool_name(calls[i].function.name)[2]
                    /\ completed[Len(completed) - done + i].arguments =
                          parse_arguments(calls[i].function.arguments)

\* a task between the two calls of a turn: the first call has returned and
\* its tool message is appended, the second has not started
C18_Witness ==
    \E t \in DOMAIN tasks :
       /\ tasks[t].pc = "tools"
       /\ Len(TurnCalls(t)) = 2
       /\ TurnDone(t) = 1
       /\ Len(tasks[t].pending) = 1


(***************************************************************************)
(* C19: a model turn with n tool calls appends exactly n tool messages.    *)
(***************************************************************************)

\* the tool calls of the assistant message at index j of a message list have
\* their n tool messages right behind them, in emission order, each with the
\* id of its call
TurnHasItsResults(msgs, j) ==
    LET calls == msgs[j].tool_calls[1]
        n == Len(calls)
    IN  /\ j + n <= Len(msgs)
        /\ \A i \in 1..n :
              /\ msgs[j + i].role = "tool"
              /\ msgs[j + i].tool_call_id = Some(calls[i].id)
        /\ j + n < Len(msgs) => msgs[j + n + 1].role # "tool"

\* C19: once a task has left the `for` loop of a turn, every turn of n tool
\* calls the task went through has exactly n tool messages behind its
\* assistant message, in emission order and with the ids of the calls, both
\* in the thread context and in the message list the next LLM call receives
C19_EveryTurnHasAllToolMessages ==
    \A t \in DOMAIN tasks :
       tasks[t].pc \in {"loop", "finished", "returned"} =>
          /\ \A j \in (tasks[t].loaded + 1)..Len(tasks[t].context.messages) :
                tasks[t].context.messages[j].tool_calls # Nothing =>
                   TurnHasItsResults(tasks[t].context.messages, j)
          /\ \A j \in 1..Len(tasks[t].messages) :
                tasks[t].messages[j].tool_calls # Nothing =>
                   TurnHasItsResults(tasks[t].messages, j)


(***************************************************************************)
(* C20: the loop stops after MAX_ITERATIONS tool-calling turns.            *)
(***************************************************************************)

\* the positions of a task at which process_message has left its loop
LoopStopped == {"finished", "returned", "respond", "done"}

PostedToolsCall ==
    /\ mcp.last.op = "call_tool"
    /\ \E i \in 1..Len(mcp.last.posts) : mcp.last.posts[i].method = "tools/call"

\* the latest call_tool returned {"error": ...}
ReturnedError ==
    /\ ~mcp.last.outcome.raised
    /\ mcp.last.outcome.value # Nothing
    /\ mcp.last.outcome.value[1].has_error

ToolsCallFailedOnSession ==
    /\ PostedToolsCall
    /\ \/ mcp.last.response.kind = "transport"
       \/ /\ mcp.last.response.kind = "body"
          /\ mcp.last.response.framing \in {"sse", "sse_second"}
          /\ mcp.last.response.text = SessionErrorJson

\* C22, as claimed: when the tools/call request of a call_tool fails with a
\* transport error or a session error, the same call_tool posts `initialize`
\* to that server once, stores the new session id and posts tools/call once
\* more with the new session id
C22_RetriesOnceAfterSessionError ==
    ToolsCallFailedOnSession =>
       \E i, j, k \in 1..Len(mcp.last.posts) :
          /\ i < j /\ j < k
          /\ mcp.last.posts[i].method = "tools/call"
          /\ mcp.last.posts[j].method = "initialize"
          /\ mcp.last.posts[j].url = mcp.last.posts[i].url
          /\ mcp.last.posts[k].method = "tools/call"
          /\ mcp.last.posts[k].url = mcp.last.posts[i].url
          /\ mcp.last.posts[k].session_id # mcp.last.posts[i].session_id
          /\ mcp.last.posts[k].session_id = mcp._sessions[mcp.last.posts[i].url]


\* the tools a server of the model has (what its tools/list envelope names)
OwnToolsJson(server_id) ==
    IF server_id = "synth-mcp" THEN SynthToolsJson ELSE PostgresToolsJson

\* the handshake of a server succeeded: it gave a session id and answered
\* tools/list with its tools in an SSE stream
HandshakeSucceeded(server_id) ==
    /\ mcp.how[server_id].init = "session"
    /\ mcp.how[server_id].list.kind = "body"
    /\ mcp.how[server_id].list.framing \in {"sse", "sse_second"}
    /\ mcp.how[server_id].list.text = OwnToolsJson(server_id)

\* the local names of the tools of a server
OwnToolNames(server_id) ==
    LET entries == loads(OwnToolsJson(server_id)).result.tools[1] IN
    {entries[i].name[1] : i \in 1..Len(entries)}

ListedTools ==
    UNION {{<<server_id, name>> : name \in OwnToolNames(server_id)} :
              server_id \in {sv \in Servers : HandshakeSucceeded(sv)}}

ToolsCallPost ==
    mcp.last.posts[CHOOSE i \in 1..Len(mcp.last.posts) :
                      mcp.last.posts[i].method = "tools/call"]

\* C25: parse_tool_name of the full_name of every tool of the catalog is the
\* (server_id, name) of that tool, and a call_tool that posts tools/call
\* posts it to the server of the tool with params.name the local name, with
\* the session id stored for that server
C25_CallGoesToOwnServerByLocalName ==
    /\ \A t \in mcp._tools : parse_tool_name(t.full_name) = <<t.server_id, t.name>>
    /\ PostedToolsCall =>
          \E t \in mcp._tools :
             /\ t.full_name = mcp.last.full_name
             /\ ToolsCallPost.url = t.server_id
             /\ ToolsCallPost.name = Some(t.name)
             /\ ToolsCallPost.session_id = mcp._sessions[t.server_id]
             /\ parse_tool_name(mcp.last.full_name) = <<ToolsCallPost.url, t.name>>

\* call_tool("synth-mcp__list__tables") has posted tools/call to synth-mcp
\* with params.name = "list__tables"
C25_Witness ==
    /\ PostedToolsCall
    /\ mcp.last.full_name = "synth-mcp__list__tables"
    /\ ToolsCallPost.url = "synth-mcp"
    /\ ToolsCallPost.name = Some("list__tables")


\* C26, as claimed: a response whose body is the plain JSON-RPC envelope is
\* read as the same envelope as an SSE frame that carries it, so call_tool
\* returns the same value for both, and a server that answers tools/list
\* with its tools as plain JSON has its tools in the catalog
C26_PlainJsonIsAccepted ==
    /\ (/\ PostedToolsCall
        /\ mcp.last.response.kind = "body"
        /\ mcp.last.response.framing = "plain")
       => /\ Parsed[mcp.last.response.content] =
                Parsed[Body("sse", mcp.last.response.text)]
          /\ mcp.last.outcome =
                except_exception(post_tools_call(HTTPResponse("sse", mcp.last.response.text)))
    /\ mcp.pc = "ready" =>
          \A server_id \in Servers :
             (/\ mcp.how[server_id].init = "session"
              /\ mcp.how[server_id].list.kind = "body"
              /\ mcp.how[server_id].list.framing = "plain"
              /\ mcp.how[server_id].list.text = OwnToolsJson(server_id))
             => \A name \in OwnToolNames(server_id) :
                   MCPTool(name, server_id) \in mcp._tools

\* C27: a thread message that is not from a bot and whose text is not empty
\* starts a background task if and only if the store holds a context for its
\* thread; without a context nothing is started and no context is created.
C27_ThreadMessageRunsIffContext ==
    [][\A event \in MessageEvents :
          ( /\ HandleMessage(event)
            /\ ~event.bot_id
            /\ event.thread # Nothing
            /\ UserMessage[event.text].user_message # "" )
          => /\ Len(tasks') = Len(tasks) + 1 <=> get(event.thread[1]) # Nothing
             /\ thread_contexts' = thread_contexts]_vars

\* the task ran to its end and its except branch caught nothing
EndedWithoutFailure(t) ==
    /\ tasks[t].pc = "done"
    /\ tasks[t].raised = Nothing
    /\ ~tasks[t].escaped

\* the progress updates of a task: those process_message handed to on_progress,
\* or for an answer from the cache the ones stored with it
ProgressUpdates(t) ==
    IF tasks[t].result.from_cache
    THEN tasks[t].result.progress_events
    ELSE tasks[t].progress

\* C28: when a task ends without a failing step, its placeholder was posted
\* with the thinking text, was then edited once for each progress update, in
\* their order, and its last edit is the rendered final answer, not an apology.
C28_PlaceholderEndsWithAnswer ==
    \A t \in DOMAIN tasks :
        EndedWithoutFailure(t)
        => /\ Head(tasks[t].placeholder) = THINKING_TEXT
           /\ Tail(tasks[t].placeholder) =
                 ProgressUpdates(t) \o <<fallback_text(tasks[t].result)>>
           /\ \A e \in TaskErrors :
                 tasks[t].placeholder[Len(tasks[t].placeholder)] # error_text(e)

\* a task that called a tool and a task answered from the cache have both ended
\* without a failure, each with progress updates shown on its placeholder
C28_Witness ==
    /\ \E t \in DOMAIN tasks :
          /\ EndedWithoutFailure(t)
          /\ ~tasks[t].result.from_cache
          /\ Len(tasks[t].progress) = 2
          /\ Len(tasks[t].placeholder) = 4
    /\ \E t \in DOMAIN tasks :
          /\ EndedWithoutFailure(t)
          /\ tasks[t].result.from_cache
          /\ Len(tasks[t].result.progress_events) = 2
          /\ Len(tasks[t].placeholder) = 4

\* C29: a task in which a step raised after the placeholder was posted has
\* ended with the apology carrying the error text as the last edit of the
\* placeholder and without an exception leaving the task; and no ended task
\* has a placeholder that still shows the thinking text.
C29_FailureEndsWithApology ==
    \A t \in DOMAIN tasks :
        (tasks[t].pc = "done" /\ tasks[t].placeholder # <<>>)
        => /\ tasks[t].raised # Nothing
              => /\ tasks[t].placeholder[Len(tasks[t].placeholder)]
                       = error_text(tasks[t].raised[1])
                 /\ ~tasks[t].escaped
           /\ tasks[t].placeholder[Len(tasks[t].placeholder)] # THINKING_TEXT

\* the cache row of the question of an entry holds the stored result
PersistedIn(rows, entry) ==
    \E row \in rows :
        /\ row.question_hash = HashOf[entry.question]
        /\ row.response_text = entry.result.response_text
        /\ JsonLoads(row.tools_used) = entry.result.tools_used
        /\ JsonLoads(row.sql_queries) = entry.result.sql_queries

\* C30: a package reaction on a response of the index whose stored result is
\* not from the cache and used a tool leaves the result in the cache and the
\* confirmation reaction on the message, with or without an earlier entry for
\* the question; a reaction on a message that is not in the index changes
\* nothing.
C30_PackageReactionSavesAndConfirms ==
    [][ /\ \A entry \in message_question_map :
              ( /\ ReactionPackage(entry)
                /\ ~entry.result.from_cache
                /\ entry.result.tools_used # <<>> )
              => /\ PersistedIn(cache', entry)
                 /\ [message_key |-> entry.message_key, name |-> "white_check_mark"]
                       \in slack'.reactions
        /\ \A message_key \in 0..Len(tasks), reaction \in Reactions :
              ( /\ ReactionIgnored(message_key, reaction)
                /\ \A entry \in message_question_map : entry.message_key # message_key )
              => UNCHANGED <<tasks, thread_contexts, message_question_map, slack, cacheVars>>
      ]_vars

\* C31: a refresh reaction on a response of the index leaves no cache row for
\* the question, posts the "running fresh query" message in the thread and
\* starts a task with the original question in that thread, with or without
\* an earlier cache entry for the question.
C31_RefreshReactionRunsAgain ==
    [][\A entry \in message_question_map :
          ReactionRefresh(entry)
          => /\ \A row \in cache' : row.question_hash # HashOf[entry.question]
             /\ slack'.posted = Append(slack.posted,
                                       [thread |-> entry.thread_ts,
                                        text |-> CACHE_CLEARED_TEXT])
             /\ tasks' = Append(tasks, NewTask(entry.thread_ts, entry.question))
      ]_vars

\* one of the two normalized questions is shorter than 15 characters
EitherShort(n1, n2) == Len(n1) < SHORT_QUESTION_LEN \/ Len(n2) < SHORT_QUESTION_LEN

\* C32: when the fuzzy tier of find_match runs for a question, then for every
\* row of the table such that the normalized question or the normalized text
\* of the row is shorter than 15 characters, fuzzy_match_score is 1.0 if the
\* two are equal and 0.0 otherwise, and _find_fuzzy returns such a row only if
\* its normalized text equals the normalized question.
C32_ShortQuestionsMatchExactly ==
    fm.pc = "tier3"
    => LET normalized == Normalized[fm.question] IN
       /\ \A row \in cache :
             EitherShort(normalized, row.question_normalized)
             => fuzzy_match_score(normalized, row.question_normalized)
                   = IF normalized = row.question_normalized THEN <<1, 1>> ELSE <<0, 1>>
       /\ \A cached \in find_fuzzy(normalized) :
             (cached # NoRow /\ EitherShort(normalized, cached.question_normalized))
             => cached.question_normalized = normalized

\* the fuzzy tier runs while the table holds the row of "list tables": for a
\* short question with the same words in another order, for a question of 16
\* characters with the same set of words, or for another spelling of the
\* question of the row, which has expired
C32_Witness ==
    /\ fm.pc = "tier3"
    /\ \/ /\ fm.question = "tables list"
          /\ \E row \in cache : row.question_normalized = "list tables"
       \/ /\ fm.question = "list list tables"
          /\ \E row \in cache : row.question_normalized = "list tables"
       \/ /\ fm.question = "List  tables "
          /\ \E row \in cache : row.question_normalized = "list tables"

\* the requests of the latest operation that need a session
SessionPosts ==
    {i \in 1..Len(mcp.last.posts) : mcp.last.posts[i].method \in {"tools/list", "tools/call"}}

\* C33: every tools/list and tools/call request carries, as mcp-session-id, the
\* session id the client holds for the server the request goes to, which that
\* server handed out in its answer to an earlier initialize request; a server
\* whose initialize answer had no session id ends the handshake without a
\* session, without tools and without a tools/list request.
C33_RequestsCarryTheServersSession ==
    /\ \A server_id \in Servers :
          mcp._sessions[server_id] # Nothing
          => /\ mcp.how[server_id].init = "session"
             /\ \E n \in 1..mcp.issued :
                   mcp._sessions[server_id] = Some(SessionId(server_id, n))
    /\ \A i \in SessionPosts :
          LET post == mcp.last.posts[i] IN
          /\ post.session_id # Nothing
          /\ post.session_id = mcp._sessions[post.url]
          /\ \/ mcp.last.op = "call_tool"
             \/ \E j \in 1..(i - 1) :
                   /\ mcp.last.posts[j].method = "initialize"
                   /\ mcp.last.posts[j].url = post.url
    /\ \A server_id \in Servers :
          (mcp.pc = "ready" /\ mcp.how[server_id].init = "no_header")
          => /\ mcp._sessions[server_id] = Nothing
             /\ \A t \in mcp._tools : t.server_id # server_id
             /\ \A i \in SessionPosts : mcp.last.posts[i].url # server_id

\* a tools/call request went out with the session of its server while the
\* other server had answered initialize without a session id
C33_Witness ==
    /\ mcp.last.op = "call_tool"
    /\ \E i \in SessionPosts :
          /\ mcp.last.posts[i].method = "tools/call"
          /\ mcp.last.posts[i].session_id = mcp._sessions[mcp.last.posts[i].url]
    /\ \E server_id \in Servers : mcp.how[server_id].init = "no_header"


(***************************************************************************)
(* C34: the arguments a tool is called with are a JSON object.             *)
(***************************************************************************)

\* raw arguments that are empty, malformed or JSON of another kind than an object
NotAnObjectText(raw_args) ==
    \/ ~TruthyStr(raw_args)
    \/ raw_args[1] \notin {SqlArguments, SearchArguments, DanglingSchemaArguments}

\* the j-th message of msgs is the assistant message of a turn, and the call
\* at position i of the turn has its tool message behind it
CallHasItsResult(msgs, j, i) ==
    /\ j + i <= Len(msgs)
    /\ msgs[j + i].role = "tool"
    /\ msgs[j + i].tool_call_id = Some(msgs[j].tool_calls[1][i].id)

\* C34: every tool call made was made with arguments that are a JSON object;
\* a call whose raw arguments are empty, malformed or not an object was made
\* with {}, and once the task has left the `for` loop of the turn of such a
\* call, the call has its tool message in the message list: the tool was
\* invoked and the loop went on to the remaining calls of the turn
C34_ArgumentsAreAlwaysAnObject ==
    \A t \in DOMAIN tasks :
       LET msgs == tasks[t].messages
           completed == tasks[t].tools_completed
       IN  /\ \A i \in 1..Len(completed) : IsObject(completed[i].arguments)
           /\ tasks[t].pc = "tools" =>
                 \A i \in 1..TurnDone(t) :
                    NotAnObjectText(TurnCalls(t)[i].function.arguments) =>
                       completed[Len(completed) - TurnDone(t) + i].arguments = {}
           /\ \A j \in 1..Len(msgs) :
                 (msgs[j].tool_calls # Nothing /\ tasks[t].pc # "tools") =>
                    \A i \in 1..Len(msgs[j].tool_calls[1]) :
                       NotAnObjectText(msgs[j].tool_calls[1][i].function.arguments) =>
                          CallHasItsResult(msgs, j, i)


(***************************************************************************)
(* C35: the message sequence of every LLM call.                            *)
(***************************************************************************)

\* the messages behind the system prompt are, by role and tool call id, the
\* last messages of the thread context
TrailsTheContext(msgs, history_messages) ==
    LET n == Len(msgs) - 1
        m == Len(history_messages)
    IN  /\ n <= m
        /\ \A i \in 1..n :
              /\ msgs[1 + i].role = history_messages[m - n + i].role
              /\ msgs[1 + i].tool_call_id = history_messages[m - n + i].tool_call_id

\* C35: whenever a task stands before an LLM call of its loop, in whatever
\* iteration, the messages the call is given are the system prompt followed
\* by at most 15 messages, which are the last messages of the thread context
C35_EveryCallGetsAtMostTheWindow ==
    \A t \in DOMAIN tasks :
       (tasks[t].pc = "loop" /\ LoopGuard(tasks[t].iteration)) =>
          /\ tasks[t].messages[1].role = "system"
          /\ Len(tasks[t].messages) - 1 <= LLM_WINDOW
          /\ TrailsTheContext(tasks[t].messages, tasks[t].context.messages)


(***************************************************************************)
(* C36: the sql_queries of a ProcessingResult.                             *)
(***************************************************************************)

RECURSIVE SqlOfCalls(_)
\* the sql argument of the calls, in order, that have one
SqlOfCalls(calls) ==
    IF calls = <<>> THEN <<>>
    ELSE IF HasKey(Head(calls).arguments, "sql")
         THEN <<Get(Head(calls).arguments, "sql")>> \o SqlOfCalls(Tail(calls))
         ELSE SqlOfCalls(Tail(calls))

\* C36: the sql_queries of the ProcessingResult the loop of a task returned
\* are the sql arguments of the tool calls the task executed whose parsed
\* arguments have a field sql, in execution order, whatever the tool and the
\* outcome of the call, and nothing else
C36_SqlQueriesAreTheSqlArguments ==
    \A t \in DOMAIN tasks :
       (tasks[t].pc \in LoopStopped /\ tasks[t].result # NoResult
           /\ ~tasks[t].result.from_cache) =>
          tasks[t].result.sql_queries = SqlOfCalls(tasks[t].tools_completed)

\* a loop returned after three or more executed calls, the same sql twice among them
\* and a call without sql
C36_Witness ==
    \E t \in DOMAIN tasks :
       /\ tasks[t].pc \in LoopStopped
       /\ ~tasks[t].result.from_cache
       /\ Len(tasks[t].tools_completed) >= 3
       /\ Len(tasks[t].result.sql_queries) = 2
       /\ tasks[t].result.sql_queries[1] = tasks[t].result.sql_queries[2]
       /\ \E i \in 1..Len(tasks[t].tools_completed) :
             ~HasKey(tasks[t].tools_completed[i].arguments, "sql")


(***************************************************************************)
(* C37: the agent loops in flight when the application shuts down.         *)
(***************************************************************************)

\* shutdown() has closed both stores
StoresClosed == ~CacheStoreOpen /\ ~ContextStoreOpen

\* the positions of a task that has ended or has been cancelled
Over == {"done", "cancelled"}

\* task t takes a step with a store operation or an outbound HTTP call: every
\* step of a task but the one that adds the user message to the context
IOStep(t) ==
    /\ tasks'[t] # tasks[t]
    /\ tasks'[t].pc # "cancelled"
    /\ tasks[t].pc # "entry"

\* C37: from the moment shutdown() closes a store, every agent-loop task has
\* ended or has been cancelled, and once both stores are closed no task takes
\* a step with a store operation or an outbound HTTP call
C37_AgentLoopsCancelledBeforeStoresClose ==
    /\ [](~CacheStoreOpen => \A t \in DOMAIN tasks : tasks[t].pc \in Over)
    /\ [][StoresClosed => \A t \in DOMAIN tasks : ~IOStep(t)]_vars


(***************************************************************************)
(* C38: the cleanup tasks outlive the exceptions of their cleanups.        *)
(***************************************************************************)

\* the two cleanup tasks as they stand
CleanupTasks == {lifecycle.cleanup_task, lifecycle.cache_cleanup_task}

\* the cleanup task has had a round whose cleanup raised
Failed(task) == \E i \in 1..Len(task.log) : task.log[i] = "error"

\* C38: a cleanup task has ended only if shutdown() has cancelled it, whatever
\* its cleanups raised before; a task whose latest cleanup raised sleeps and
\* can run its cleanup again; and a task that has ended runs no cleanup any more
C38_CleanupTasksEndOnlyWhenCancelled ==
    /\ [](\A task \in CleanupTasks : task.pc = "ended" => lifecycle.pc # "running")
    /\ []((/\ lifecycle.pc = "running"
           /\ Failed(lifecycle.cleanup_task)
           /\ Len(lifecycle.cleanup_task.log) < MaxCleanupRuns)
          => ENABLED RunCleanupTask(FALSE))
    /\ []((/\ lifecycle.pc = "running"
           /\ Failed(lifecycle.cache_cleanup_task)
           /\ Len(lifecycle.cache_cleanup_task.log) < MaxCleanupRuns)
          => ENABLED RunCacheCleanupTask(FALSE))
    /\ [][/\ lifecycle.cleanup_task.pc = "ended"
             => lifecycle'.cleanup_task = lifecycle.cleanup_task
          /\ lifecycle.cache_cleanup_task.pc = "ended"
             => lifecycle'.cache_cleanup_task = lifecycle.cache_cleanup_task]_vars

\* both tasks were cancelled after a cleanup of each had raised, and the
\* context cleanup had run again after its exception
C38_Witness ==
    /\ lifecycle.cleanup_task = [pc |-> "ended", log |-> <<"error", "cleaned">>]
    /\ lifecycle.cache_cleanup_task.pc = "ended"
    /\ Failed(lifecycle.cache_cleanup_task)


(***************************************************************************)
(* C39: the progress updates of a message.                                 *)
(***************************************************************************)

\* the lines of a progress update for the finished calls listed
FinishedLines(finished) ==
    <<"Working on it...">>
    \o [i \in 1..Len(finished) |->
          ProgressLine(IF finished[i].status = "complete" THEN "done" ELSE "failed",
                       finished[i])]

\* the update before call k: the k-1 calls made before it as finished, call k
\* as running
InFlightText(completed, k) ==
    Join("\n", FinishedLines(SubSeq(completed, 1, k - 1))
               \o <<ProgressLine("running", completed[k])>>)

\* the update after a batch that ended with call k
AnalyzingText(completed, k) ==
    Join("\n", FinishedLines(SubSeq(completed, 1, k)) \o <<"", "Analyzing results...">>)

RECURSIVE BatchEnds(_, _)
\* the numbers of the calls with which the batches of the assistant messages
\* of msgs end, the calls counted from `made`
BatchEnds(msgs, made) ==
    IF msgs = <<>> THEN {}
    ELSE IF Head(msgs).tool_calls # Nothing
         THEN {made + Len(Head(msgs).tool_calls[1])}
              \cup BatchEnds(Tail(msgs), made + Len(Head(msgs).tool_calls[1]))
         ELSE BatchEnds(Tail(msgs), made)

RECURSIVE UpdatesUpTo(_, _, _)
\* the updates of the first k calls: one before every call, one after every batch
UpdatesUpTo(completed, k, batch_ends) ==
    IF k = 0 THEN <<>>
    ELSE UpdatesUpTo(completed, k - 1, batch_ends)
         \o <<InFlightText(completed, k)>>
         \o (IF k \in batch_ends THEN <<AnalyzingText(completed, k)>> ELSE <<>>)

TasksOfMessage(ts) ==
    {t \in DOMAIN tasks : tasks[t].event # Nothing /\ tasks[t].event[1].ts = ts}

\* the ts of the user messages for which a task was started
MessagesWithTasks == {tasks[t].event[1].ts : t \in {u \in DOMAIN tasks : tasks[u].event # Nothing}}

\* C40: for every user message, also one that mentions the bot inside a
\* thread that has a context and so reaches the app as an app_mention event
\* and as a message event, at most one task is started
C40_OneMessageOneTask ==
    \A ts \in MessagesWithTasks : Cardinality(TasksOfMessage(ts)) <= 1

=============================================================================
